---- MODULE Spec2Model ----
(***************************************************************************)
(* A model of the cross-instance coordination layer of wme-sdk-plus:       *)
(* SharedStateManager (packages/shared-state), the namespaced store of     *)
(* named locks and key/value data that lives on the shared window object,  *)
(* and of the two UI modules built on it: SelectionModeManager             *)
(* (packages/module-ui--selection-mode) and the sidebar tab-switch         *)
(* controller (packages/module-ui--sidebar-manager), with the method       *)
(* interceptors they install on sdk.Editing.setSelection and on            *)
(* window.history.pushState.                                               *)
(* The registry of modules (allHooks) and the engine that resolves their   *)
(* order, installs their rules on an sdk object and removes them again     *)
(* (@wme-enhanced-sdk/sdk-patcher) are modelled with the rules of three    *)
(* modules: UI.SidebarManager, UI.SelectionMode and Events.                *)
(*                                                                         *)
(* Every public method of a class is one action.  A JavaScript object      *)
(* used as a dictionary (window[...], state.locks, state.data) is a        *)
(* function whose DOMAIN is the set of its own properties.  Date.now() is  *)
(* the variable now, which only the actions Tick and Elapse advance: one   *)
(* method call is one synchronous step and reads one clock value.          *)
(***************************************************************************)
EXTENDS Integers, FiniteSets, Sequences, TLC

VARIABLES
    window,     \* the shared storage location: namespace string -> SharedStateStorage
    managers,   \* the constructed SharedStateManager objects: id -> private fields
    now,        \* Date.now()
    last,       \* the last call: method, caller, arguments, the locks it found, its result
    ui          \* the objects of the UI modules and what they act on:
                \*   selection    SelectionModeManager objects: id -> private fields
                \*   sidebar      UrlBasedSidebarTabSwitchController objects: id -> private fields
                \*   interceptors MethodInterceptor objects: id -> fields
                \*   slots        the intercepted method slots: slot -> what the slot holds
                \*   location     window.location
                \*   sdk          each instance's sdk object: namespace -> member -> descriptor
                \*   engine       each instance's patch engine: install order and kept artifacts
                \*   controls     the control objects each manager's enterSelectionMode returned
                \*   calls        the calls the last operation made on its collaborators, in order

vars == <<window, managers, now, last, ui>>

----------------------------------------------------------------------------
(* Bounds and inputs *)

\* The clock is capped so that the state space is finite.
MaxTime == 3

\* JavaScript's undefined (an omitted optional argument) and falsy option values.
Undefined == "undefined"

\* Defaults of the constructor's options.
DefaultNamespace == "__WME_SDK_PLUS_SHARED_STATE__"
DefaultVersion == "1.0.0"
DefaultStaleLockTimeout == 60000

\* The managers that may be constructed, with the options each is given.
\* A and B agree on everything; C shares their namespace with a longer
\* timeout and another version; D lives in a namespace of its own; E and F
\* share a third namespace with the timeout of 60000 ms.
\* An empty string or a 0 stands for an option that is left out.
ManagerIds == {"A", "B", "C", "D", "E", "F"}

Options ==
    [m \in ManagerIds |->
        CASE m = "A" -> [namespace |-> "ns1", version |-> "", staleLockTimeout |-> 1]
          [] m = "B" -> [namespace |-> "ns1", version |-> "", staleLockTimeout |-> 1]
          [] m = "C" -> [namespace |-> "ns1", version |-> "2.0.0", staleLockTimeout |-> 2]
          [] m = "D" -> [namespace |-> "ns2", version |-> "", staleLockTimeout |-> 1]
          [] m \in {"E", "F"} ->
                [namespace |-> "ns3", version |-> "", staleLockTimeout |-> 60000]]

LockNames == {"x", "y"}
Metadata == {Undefined, "m1"}
Keys == {"k"}
Values == {"v1", Undefined}
Defaults == {"d"}

----------------------------------------------------------------------------
(* JavaScript objects as dictionaries *)

Has(obj, key) == key \in DOMAIN obj

Put(obj, key, value) ==
    [p \in DOMAIN obj \cup {key} |-> IF p = key THEN value ELSE obj[p]]

Delete(obj, key) == [p \in DOMAIN obj \ {key} |-> obj[p]]

EmptyObject == [p \in {} |-> Undefined]

\* A dictionary written as {} inherits from Object.prototype: the names of
\* that prototype's members are found by `in` and by obj[key] although they
\* are no own property.  One such name stands for all of them.
ObjectPrototypeKeys == {"toString"}

\* key in obj
In(obj, key) == Has(obj, key) \/ key \in ObjectPrototypeKeys

\* obj[key]
Get(obj, key) ==
    IF Has(obj, key) THEN obj[key]
    ELSE IF key \in ObjectPrototypeKeys THEN "function " \o key
    ELSE Undefined

----------------------------------------------------------------------------
(* SharedStateManager: private helpers *)

\* instance_${Date.now()}_${random}: a string no other manager has.
GenerateInstanceId(m) == "instance_" \o m

\* A faulty namespace lookup: every manager uses one fixed window key.
NamespaceOf_Fixed(m) == "ns1"

\* The manager's own namespace.
NamespaceOf(m) == managers[m].namespace

\* A faulty _ensureSharedState: a namespace whose stored version is not the
\* manager's is created anew.
EnsureSharedState_ResetsOnVersion(w, ns, version) ==
    IF Has(w, ns) /\ w[ns].version = version
    THEN w
    ELSE Put(w, ns, [version |-> version, locks |-> EmptyObject, data |-> EmptyObject])

\* _ensureSharedState: create the namespace's storage when the window has none.
EnsureSharedState(w, ns, version) ==
    IF Has(w, ns)
    THEN w
    ELSE Put(w, ns, [version |-> version, locks |-> EmptyObject, data |-> EmptyObject])

\* The window after manager m has called _getSharedState.
Ensured(m) == EnsureSharedState(window, NamespaceOf(m), managers[m].version)

\* _getSharedState: the storage manager m works on.
GetSharedState(m) == Ensured(m)[NamespaceOf(m)]

\* The window with manager m's storage replaced by state.
WithState(m, state) == Put(Ensured(m), NamespaceOf(m), state)

\* A faulty _isLockStale: the operands of the subtraction are exchanged.
IsLockStale_Swapped(m, lock, t) == lock.timestamp - t > managers[m].staleLockTimeout

\* A faulty _isLockStale: a lock is stale as soon as its age reaches the timeout.
IsLockStale_AtTimeout(m, lock, t) == t - lock.timestamp >= managers[m].staleLockTimeout

\* A faulty _isLockStale: the timeout is the one of the lock's owner.
IsLockStale_OwnersTimeout(m, lock, t) ==
    \E o \in DOMAIN managers :
        /\ managers[o].instanceId = lock.ownerId
        /\ t - lock.timestamp > managers[o].staleLockTimeout

\* _isLockStale, as manager m judges it at time t.
IsLockStale(m, lock, t) == t - lock.timestamp > managers[m].staleLockTimeout

\* const lock = state.locks[lockName]: the set holding the lock, or the empty set.
ReadLock(m, lockName) ==
    LET state == GetSharedState(m)
    IN  IF Has(state.locks, lockName) THEN {state.locks[lockName]} ELSE {}

\* The record of one call: lock is the set of locks the call read (acquireLock,
\* releaseLock and the queries: the named lock, if any) or deleted
\* (releaseAllLocks, cleanupStaleLocks); res is what it returned.
Call(op, m, name, arg, lock, res) ==
    [op |-> op, mgr |-> m, name |-> name, arg |-> arg, lock |-> lock, res |-> res]

----------------------------------------------------------------------------
(* The page the UI modules run in *)

\* JavaScript's null.
Null == "null"

\* The SDK+ instances (scripts) of the page.  Each has its own sdk object,
\* its own SelectionModeManager and its own sidebar controller; all share
\* the window, its history and its location.
InstanceIds == {"S1", "S2"}

\* The method slots that get intercepted: window.history.pushState, one for
\* the page, and sdk.Editing.setSelection, one for each instance's sdk.
PushStateSlot == "history.pushState"

SetSelectionSlot(s) == s \o ".sdk.Editing.setSelection"

\* sdk.Events.on, once and off of an instance's sdk.
EventsSlot(s, method) == s \o ".sdk.Events." \o method

SlotNames ==
    {PushStateSlot} \cup {SetSelectionSlot(s) : s \in InstanceIds}
        \cup {EventsSlot(s, method) : s \in InstanceIds, method \in {"on", "once", "off"}}

\* What a slot holds before anything is intercepted: the native method.
Original == "original"

\* window.location.href as the parts the code looks at: origin (protocol,
\* hostname, port), pathname, and the query parameters tab and q (any other
\* parameter); a parameter that is absent is Undefined.
Url(origin, path, tab, q) == [origin |-> origin, path |-> path, tab |-> tab, q |-> q]

InitialLocation == Url("o1", "p1", "t1", "q1")

\* The sdk object of an instance as the editor made it: its namespaces and
\* their members, each a property with a value (methods are in the slots).
NativeSdk ==
    [Editing |-> [setSelection |-> [value |-> "native"]],
     Events |-> [on |-> [value |-> "native"], once |-> [value |-> "native"],
                 off |-> [value |-> "native"], eventBus |-> [value |-> "native"]]]

\* engine: the modules an instance's patch engine installed, in the order it
\* installed them, and for each what its rules gave back, kept for the
\* uninstall.
\* controls: the control objects that scripts hold, told apart by the session
\* whose enterSelectionMode returned them: "first" is the one of the manager's
\* first session, "later" one of a session after it.
InitialUi ==
    [selection |-> EmptyObject,
     sidebar |-> EmptyObject,
     interceptors |-> EmptyObject,
     slots |-> [sl \in SlotNames |-> Original],
     location |-> InitialLocation,
     sdk |-> [s \in InstanceIds |-> NativeSdk],
     engine |-> [s \in InstanceIds |-> [order |-> <<>>, kept |-> EmptyObject]],
     controls |-> [s \in InstanceIds |-> {}],
     calls |-> <<>>]

\* The operation that starts: nothing has been called yet.
Started(u) == [u EXCEPT !.calls = <<>>]

\* A call on a collaborator is noted.
Noted(u, call) == [u EXCEPT !.calls = Append(@, call)]

----------------------------------------------------------------------------
(* Construction *)

Init ==
    /\ window = EmptyObject
    /\ managers = EmptyObject
    /\ now = 0
    /\ last = Call("init", "", "", "", {}, FALSE)
    /\ ui = InitialUi

\* new SharedStateManager(options)
Construct(m) ==
    /\ m \notin DOMAIN managers
    /\ LET o == Options[m]
           ns == IF o.namespace = "" THEN DefaultNamespace ELSE o.namespace
           version == IF o.version = "" THEN DefaultVersion ELSE o.version
           timeout == IF o.staleLockTimeout = 0
                      THEN DefaultStaleLockTimeout ELSE o.staleLockTimeout
       IN  /\ managers' = Put(managers, m,
                              [namespace |-> ns, version |-> version,
                               staleLockTimeout |-> timeout,
                               instanceId |-> GenerateInstanceId(m)])
           /\ window' = EnsureSharedState(window, ns, version)
    /\ last' = Call("new", m, "", "", {}, FALSE)
    /\ UNCHANGED <<now, ui>>

\* Time passes.
Tick ==
    /\ now < MaxTime
    /\ now' = now + 1
    /\ last' = Call("tick", "", "", "", {}, FALSE)
    /\ UNCHANGED <<window, managers, ui>>

----------------------------------------------------------------------------
(* Locks *)

\* A faulty ownership test: any owner will do.
OwnedBy_AnyOwner(m, lock) == lock.ownerId # ""

\* lock.ownerId === this._instanceId
OwnedBy(m, lock) == lock.ownerId = managers[m].instanceId

\* lock.ownerId is neither null nor empty
HasOwner(lock) == lock.ownerId # ""

\* A faulty LockBlocks: only the caller's own lock blocks the caller.
LockBlocks_OwnOnly(m, locks) ==
    \E l \in locks : OwnedBy(m, l) /\ ~IsLockStale(m, l, now)

\* A faulty LockBlocks: the caller's own lock does not block the caller, who
\* acquires it anew.
LockBlocks_OthersOnly(m, locks) ==
    \E l \in locks : HasOwner(l) /\ ~OwnedBy(m, l) /\ ~IsLockStale(m, l, now)

\* acquireLock's test: the lock exists, has an owner and is not stale.
LockBlocks(m, locks) == \E l \in locks : HasOwner(l) /\ ~IsLockStale(m, l, now)

\* A faulty NewLock: the metadata argument is dropped.
NewLock_NoMetadata(m, metadata) ==
    [ownerId |-> managers[m].instanceId, timestamp |-> now, metadata |-> Undefined]

\* The lock acquireLock writes.
NewLock(m, metadata) ==
    [ownerId |-> managers[m].instanceId, timestamp |-> now, metadata |-> metadata]

\* acquireLock(lockName, metadata)
AcquireLock(m, lockName, metadata) ==
    /\ m \in DOMAIN managers
    /\ LET state == GetSharedState(m)
           lock == ReadLock(m, lockName)
       IN  IF LockBlocks(m, lock)
           THEN /\ window' = Ensured(m)
                /\ last' = Call("acquireLock", m, lockName, metadata, lock,
                                [success |-> FALSE,
                                 currentOwnerId |-> (CHOOSE l \in lock : TRUE).ownerId,
                                 wasStale |-> FALSE])
           ELSE LET wasStale == \E l \in lock : IsLockStale(m, l, now)
                IN  /\ window' = WithState(m,
                            [state EXCEPT !.locks =
                                Put(state.locks, lockName, NewLock(m, metadata))])
                    /\ last' = Call("acquireLock", m, lockName, metadata, lock,
                                    [success |-> TRUE, wasStale |-> wasStale])
    /\ UNCHANGED <<managers, now, ui>>

\* releaseLock(lockName)
ReleaseLock(m, lockName) ==
    /\ m \in DOMAIN managers
    /\ LET state == GetSharedState(m)
           lock == ReadLock(m, lockName)
       IN  IF \E l \in lock : OwnedBy(m, l)
           THEN /\ window' = WithState(m,
                        [state EXCEPT !.locks = Delete(state.locks, lockName)])
                /\ last' = Call("releaseLock", m, lockName, "", lock, TRUE)
           ELSE /\ window' = Ensured(m)
                /\ last' = Call("releaseLock", m, lockName, "", lock, FALSE)
    /\ UNCHANGED <<managers, now, ui>>

\* A hasLock that also asks for the lock to be fresh.
HasLockResult_FreshOnly(m, lockName) ==
    \E l \in ReadLock(m, lockName) : OwnedBy(m, l) /\ ~IsLockStale(m, l, now)

\* What hasLock(lockName) returns to manager m in the current state.
HasLockResult(m, lockName) == \E l \in ReadLock(m, lockName) : OwnedBy(m, l)

\* What isLockHeld(lockName) returns to manager m in the current state.
IsLockHeldResult(m, lockName) ==
    \E l \in ReadLock(m, lockName) : HasOwner(l) /\ ~IsLockStale(m, l, now)

\* getLockInfo's null.
NullInfo == [isNull |-> TRUE]

\* What getLockInfo(lockName) returns to manager m: null, or a copy of the lock.
GetLockInfoResult(m, lockName) ==
    LET lock == ReadLock(m, lockName)
    IN  IF lock = {} \/ \E l \in lock : IsLockStale(m, l, now)
        THEN NullInfo
        ELSE CHOOSE l \in lock : TRUE

\* What listLocks(includeStale) returns to manager m: the lock names it lists.
ListLocksResult(m, includeStale) ==
    LET locks == GetSharedState(m).locks
    IN  {n \in DOMAIN locks : includeStale \/ ~IsLockStale(m, locks[n], now)}

\* hasLock(lockName)
HasLock(m, lockName) ==
    /\ m \in DOMAIN managers
    /\ window' = Ensured(m)
    /\ last' = Call("hasLock", m, lockName, "", ReadLock(m, lockName),
                    HasLockResult(m, lockName))
    /\ UNCHANGED <<managers, now, ui>>

\* A faulty isLockHeld: a stale lock it comes across is deleted.
IsLockHeld_RemovesStale(m, lockName) ==
    /\ m \in DOMAIN managers
    /\ LET state == GetSharedState(m)
           stale == \E l \in ReadLock(m, lockName) : IsLockStale(m, l, now)
       IN  window' = IF stale
                     THEN WithState(m, [state EXCEPT !.locks = Delete(state.locks, lockName)])
                     ELSE Ensured(m)
    /\ last' = Call("isLockHeld", m, lockName, "", ReadLock(m, lockName),
                    IsLockHeldResult(m, lockName))
    /\ UNCHANGED <<managers, now, ui>>

\* isLockHeld(lockName)
IsLockHeld(m, lockName) ==
    /\ m \in DOMAIN managers
    /\ window' = Ensured(m)
    /\ last' = Call("isLockHeld", m, lockName, "", ReadLock(m, lockName),
                    IsLockHeldResult(m, lockName))
    /\ UNCHANGED <<managers, now, ui>>

\* getLockInfo(lockName)
GetLockInfo(m, lockName) ==
    /\ m \in DOMAIN managers
    /\ window' = Ensured(m)
    /\ last' = Call("getLockInfo", m, lockName, "", ReadLock(m, lockName),
                    GetLockInfoResult(m, lockName))
    /\ UNCHANGED <<managers, now, ui>>

\* const info = getLockInfo(lockName); info[field] = value: the caller writes a
\* top-level field of the object it was given, which is the object literal
\* { ...lock } and not the lock in state.locks.
ChangeLockInfo(m, lockName, field, value) ==
    /\ m \in DOMAIN managers
    /\ GetLockInfoResult(m, lockName) # NullInfo
    /\ window' = Ensured(m)
    /\ last' = Call("changeLockInfo", m, lockName, field, ReadLock(m, lockName),
                    [GetLockInfoResult(m, lockName) EXCEPT ![field] = value])
    /\ UNCHANGED <<managers, now, ui>>

\* listLocks(includeStale)
ListLocks(m, includeStale) ==
    /\ m \in DOMAIN managers
    /\ window' = Ensured(m)
    /\ last' = Call("listLocks", m, "", includeStale, {}, ListLocksResult(m, includeStale))
    /\ UNCHANGED <<managers, now, ui>>

\* A faulty releaseAllLocks: stale locks of the caller are left behind.
OwnLocks_FreshOnly(m, locks) ==
    {n \in DOMAIN locks : OwnedBy(m, locks[n]) /\ ~IsLockStale(m, locks[n], now)}

\* The locks releaseAllLocks deletes: those the caller owns.
OwnLocks(m, locks) == {n \in DOMAIN locks : OwnedBy(m, locks[n])}

\* A faulty cleanupStaleLocks: only the caller's own stale locks are deleted.
StaleLocks_OwnOnly(m, locks) ==
    {n \in DOMAIN locks : OwnedBy(m, locks[n]) /\ IsLockStale(m, locks[n], now)}

\* The locks cleanupStaleLocks deletes: those the caller judges stale.
StaleLocks(m, locks) == {n \in DOMAIN locks : IsLockStale(m, locks[n], now)}

\* The locks object with every name of a set deleted.
DeleteAll(locks, names) == [n \in DOMAIN locks \ names |-> locks[n]]

\* releaseAllLocks()
ReleaseAllLocks(m) ==
    /\ m \in DOMAIN managers
    /\ LET state == GetSharedState(m)
           gone == OwnLocks(m, state.locks)
       IN  /\ window' = WithState(m, [state EXCEPT !.locks = DeleteAll(state.locks, gone)])
           /\ last' = Call("releaseAllLocks", m, "", "",
                           {state.locks[n] : n \in gone}, Cardinality(gone))
    /\ UNCHANGED <<managers, now, ui>>

\* cleanupStaleLocks()
CleanupStaleLocks(m) ==
    /\ m \in DOMAIN managers
    /\ LET state == GetSharedState(m)
           gone == StaleLocks(m, state.locks)
       IN  /\ window' = WithState(m, [state EXCEPT !.locks = DeleteAll(state.locks, gone)])
           /\ last' = Call("cleanupStaleLocks", m, "", "",
                             {state.locks[n] : n \in gone}, Cardinality(gone))
    /\ UNCHANGED <<managers, now, ui>>

----------------------------------------------------------------------------
(* Shared data *)

\* setSharedData(key, value)
SetSharedData(m, key, value) ==
    /\ m \in DOMAIN managers
    /\ LET state == GetSharedState(m)
       IN  window' = WithState(m, [state EXCEPT !.data = Put(state.data, key, value)])
    /\ last' = Call("setSharedData", m, key, value, {}, FALSE)
    /\ UNCHANGED <<managers, now, ui>>

\* What getSharedData(key, defaultValue) returns to manager m in the current state.
GetSharedDataResult(m, key, defaultValue) ==
    LET data == GetSharedState(m).data
    IN  IF Get(data, key) # Undefined THEN Get(data, key) ELSE defaultValue

\* getSharedData(key, defaultValue)
GetSharedData(m, key, defaultValue) ==
    /\ m \in DOMAIN managers
    /\ window' = Ensured(m)
    /\ last' = Call("getSharedData", m, key, defaultValue, {},
                    GetSharedDataResult(m, key, defaultValue))
    /\ UNCHANGED <<managers, now, ui>>

\* deleteSharedData(key)
DeleteSharedData(m, key) ==
    /\ m \in DOMAIN managers
    /\ LET state == GetSharedState(m)
       IN  IF In(state.data, key)
           THEN /\ window' = WithState(m, [state EXCEPT !.data = Delete(state.data, key)])
                /\ last' = Call("deleteSharedData", m, key, "", {}, TRUE)
           ELSE /\ window' = Ensured(m)
                /\ last' = Call("deleteSharedData", m, key, "", {}, FALSE)
    /\ UNCHANGED <<managers, now, ui>>

\* A faulty clearSharedData: the whole storage is reset, locks included.
ClearedState_Everything(state) ==
    [version |-> state.version, locks |-> EmptyObject, data |-> EmptyObject]

\* state.data = {}
ClearedState(state) == [state EXCEPT !.data = EmptyObject]

\* clearSharedData()
ClearSharedData(m) ==
    /\ m \in DOMAIN managers
    /\ window' = WithState(m, ClearedState(GetSharedState(m)))
    /\ last' = Call("clearSharedData", m, "", "", {}, FALSE)
    /\ UNCHANGED <<managers, now, ui>>

----------------------------------------------------------------------------
(* MethodInterceptor (@wme-enhanced-sdk/method-interceptor) *)

\* The sentinel a decision function returns to let the call go on.
CONTINUE_INVOCATION == "CONTINUE_INVOCATION"

\* new MethodInterceptor(target, methodName, decisionFn): what the slot holds
\* is captured as the original; the slot is left as it is.
AfterNewInterceptor(u, i, slot) ==
    [u EXCEPT !.interceptors =
        Put(@, i, [slot |-> slot, original |-> u.slots[slot],
                   previous |-> u.slots[slot],
                   enabled |-> FALSE, restored |-> FALSE])]

\* enable() fails after restore().
EnableThrows(u, i) == u.interceptors[i].restored

\* enable(): a no-op when enabled; otherwise what the slot holds is kept as
\* previous and the slot gets this interceptor's wrapper.
AfterEnable(u, i) ==
    LET it == u.interceptors[i]
    IN  IF it.restored \/ it.enabled
        THEN u
        ELSE [u EXCEPT !.interceptors[i].previous = u.slots[it.slot],
                       !.interceptors[i].enabled = TRUE,
                       !.slots[it.slot] = i]

\* disable(): a no-op when not enabled; otherwise the slot gets back what it
\* held immediately before enable().
AfterDisable(u, i) ==
    LET it == u.interceptors[i]
    IN  IF ~it.enabled
        THEN u
        ELSE [u EXCEPT !.interceptors[i].enabled = FALSE,
                       !.slots[it.slot] = it.previous]

\* restore(): the slot gets back the original captured at construction, and
\* the interceptor is finished.
AfterRestore(u, i) ==
    LET it == u.interceptors[i]
    IN  [u EXCEPT !.interceptors[i].enabled = FALSE,
                  !.interceptors[i].restored = TRUE,
                  !.slots[it.slot] = it.original]

----------------------------------------------------------------------------
(* UrlBasedSidebarTabSwitchController *)

\* The controller of the sidebar module of instance s (sidebarTabController
\* of its index); the selection-mode module of s has a controller of its own,
\* named s.
SidebarTabController(s) == s \o ".sidebarTabController"

\* The controller's _historyPushStateInterceptor.
PushInterceptor(c) == c \o "._historyPushStateInterceptor"

IsSameOrigin(url1, url2) == url1.origin = url2.origin

IsSamePath(url1, url2) == url1.path = url2.path

\* The decision function the controller gives its interceptor: what it
\* returns for a pushState to newUrl while the page is at currentUrl.
PushStateDecision(currentUrl, newUrl) ==
    IF ~IsSameOrigin(newUrl, currentUrl) \/ ~IsSamePath(newUrl, currentUrl)
    THEN CONTINUE_INVOCATION
    ELSE IF currentUrl.tab # newUrl.tab
         THEN Undefined
         ELSE CONTINUE_INVOCATION

\* Whether a call of what the slot holds gets to the native pushState: a
\* wrapper asks its decision function and goes on to the original it captured.
RECURSIVE ReachesPushState(_, _, _)
ReachesPushState(u, holder, newUrl) ==
    IF holder = Original
    THEN TRUE
    ELSE IF u.interceptors[holder].enabled
            /\ PushStateDecision(u.location, newUrl) # CONTINUE_INVOCATION
         THEN FALSE
         ELSE ReachesPushState(u, u.interceptors[holder].original, newUrl)

\* window.history.pushState(state, '', newUrl): the native method, when it
\* is reached, moves the page to newUrl (the browser refuses another origin).
AfterPushState(u, newUrl) ==
    IF ReachesPushState(u, u.slots[PushStateSlot], newUrl)
    THEN [Noted(u, "pushState") EXCEPT !.location =
            IF IsSameOrigin(newUrl, u.location) THEN newUrl ELSE u.location]
    ELSE u

\* new UrlBasedSidebarTabSwitchController()
AfterNewController(u, c) ==
    [AfterNewInterceptor(u, PushInterceptor(c), PushStateSlot)
        EXCEPT !.sidebar = Put(@, c, [savedTab |-> Null])]

\* A faulty preventTabSwitching: it captures what the slot holds and puts
\* its wrapper there on every call, also when prevention is already on.
AfterPreventTabSwitching_Recapture(u, c) ==
    [u EXCEPT !.interceptors[PushInterceptor(c)].previous = u.slots[PushStateSlot],
              !.interceptors[PushInterceptor(c)].enabled = TRUE,
              !.slots[PushStateSlot] = PushInterceptor(c)]

\* preventTabSwitching()
AfterPreventTabSwitching(u, c) == AfterEnable(u, PushInterceptor(c))

\* A faulty allowTabSwitching: it does nothing.
AfterAllowTabSwitching_Nothing(u, c) == u

\* allowTabSwitching()
AfterAllowTabSwitching(u, c) == AfterDisable(u, PushInterceptor(c))

\* What isTabSwitchingPrevented() returns.
IsTabSwitchingPreventedResult(u, c) == u.interceptors[PushInterceptor(c)].enabled

\* saveCurrentTab(): searchParams.get('tab') is null when there is no tab.
AfterSaveCurrentTab(u, c) ==
    [u EXCEPT !.sidebar[c].savedTab =
        IF u.location.tab = Undefined THEN Null ELSE u.location.tab]

\* restoreSavedTab()
AfterRestoreSavedTab(u, c) ==
    IF u.sidebar[c].savedTab # Null
    THEN [AfterPushState(u, [u.location EXCEPT !.tab = u.sidebar[c].savedTab])
            EXCEPT !.sidebar[c].savedTab = Null]
    ELSE u

\* A faulty destroy: it disables the interceptor and does not finish it.
AfterDestroy_Disable(u, c) == AfterDisable(u, PushInterceptor(c))

\* destroy()
AfterDestroy(u, c) == AfterRestore(u, PushInterceptor(c))

\* new UrlBasedSidebarTabSwitchController()
NewController(c) ==
    /\ c \notin DOMAIN ui.sidebar
    /\ ui' = AfterNewController(Started(ui), c)
    /\ last' = Call("new UrlBasedSidebarTabSwitchController", c, "", "", {}, FALSE)
    /\ UNCHANGED <<window, managers, now>>

\* controller.preventTabSwitching()
PreventTabSwitching(c) ==
    /\ c \in DOMAIN ui.sidebar
    /\ IF EnableThrows(ui, PushInterceptor(c))
       THEN /\ ui' = Started(ui)
            /\ last' = Call("preventTabSwitching", c, "", "", {}, "AlreadyRestored")
       ELSE /\ ui' = AfterPreventTabSwitching(Started(ui), c)
            /\ last' = Call("preventTabSwitching", c, "", "", {}, "returns")
    /\ UNCHANGED <<window, managers, now>>

\* controller.allowTabSwitching(); res tells whether prevention was on when
\* it was called.
AllowTabSwitching(c) ==
    /\ c \in DOMAIN ui.sidebar
    /\ ui' = AfterAllowTabSwitching(Started(ui), c)
    /\ last' = Call("allowTabSwitching", c, "", "", {},
                    IsTabSwitchingPreventedResult(ui, c))
    /\ UNCHANGED <<window, managers, now>>

\* controller.isTabSwitchingPrevented()
IsTabSwitchingPrevented(c) ==
    /\ c \in DOMAIN ui.sidebar
    /\ ui' = Started(ui)
    /\ last' = Call("isTabSwitchingPrevented", c, "", "", {},
                    IsTabSwitchingPreventedResult(ui, c))
    /\ UNCHANGED <<window, managers, now>>

\* controller.saveCurrentTab()
SaveCurrentTab(c) ==
    /\ c \in DOMAIN ui.sidebar
    /\ ui' = AfterSaveCurrentTab(Started(ui), c)
    /\ last' = Call("saveCurrentTab", c, "", "", {}, "returns")
    /\ UNCHANGED <<window, managers, now>>

\* controller.restoreSavedTab()
RestoreSavedTab(c) ==
    /\ c \in DOMAIN ui.sidebar
    /\ ui' = AfterRestoreSavedTab(Started(ui), c)
    /\ last' = Call("restoreSavedTab", c, "", "", {}, "returns")
    /\ UNCHANGED <<window, managers, now>>

\* controller.destroy()
Destroy(c) ==
    /\ c \in DOMAIN ui.sidebar
    /\ ui' = AfterDestroy(Started(ui), c)
    /\ last' = Call("destroy", c, "", "", {}, "returns")
    /\ UNCHANGED <<window, managers, now>>

\* window.history.pushState(state, '', newUrl), called by the editor or a
\* script; res tells whether the native pushState was invoked.
PushState(newUrl) ==
    /\ ui' = AfterPushState(Started(ui), newUrl)
    /\ last' = Call("pushState", "", "", newUrl, {},
                    ReachesPushState(ui, ui.slots[PushStateSlot], newUrl))
    /\ UNCHANGED <<window, managers, now>>

----------------------------------------------------------------------------
(* SelectionModeManager *)

\* The options of the manager's own SharedStateManager and its lock.
SelectionNamespace == "__WME_SDK_PLUS_SELECTION_MODE__"
SelectionStaleLockTimeout == 60000
SelectionLock == "selectionMode"

\* An options object is a record that has the fields that were given:
\* filter, and of preventTabSwitching, keepCurrentTab, captureOnly (booleans),
\* onSelect and onCancel (TRUE for a function) any.
\* options.field is truthy
Truthy(options, field) == Has(options, field) /\ options[field]

\* options.field !== false
NotFalse(options, field) == ~(Has(options, field) /\ ~options[field])

\* matchesFilter(objectType, ids, filter)
MatchesFilter(objectType, ids, filter) ==
    IF Has(filter, "types") /\ filter.types # {} /\ objectType \notin filter.types
    THEN FALSE
    ELSE IF Has(filter, "allowedIds") /\ filter.allowedIds # {}
         THEN \E id \in ids : id \in filter.allowedIds
         ELSE TRUE

\* The manager's _selectionInterceptor.
SelectionInterceptor(s) == s \o "._selectionInterceptor"

\* The options of the manager's session: _currentOptions is a set that is
\* empty (null) or holds the options object.
CurrentOptions(u, s) == CHOOSE o \in u.selection[s].currentOptions : TRUE

\* getSelectionModeManager() of the module's index: the instance's sidebar
\* controller and its SelectionModeManager are constructed, the manager with
\* a SharedStateManager of its own.
AfterGetSelectionModeManager(s) ==
    IF s \in DOMAIN ui.selection
    THEN [ui |-> Started(ui), managers |-> managers, window |-> window]
    ELSE [ui |-> [AfterNewController(Started(ui), s) EXCEPT !.selection =
                    Put(@, s, [isActive |-> FALSE, currentOptions |-> {},
                               sidebarController |-> s,
                               selectionInterceptor |-> Null,
                               openLayersController |-> Null])],
          managers |-> Put(managers, s,
                           [namespace |-> SelectionNamespace, version |-> DefaultVersion,
                            staleLockTimeout |-> SelectionStaleLockTimeout,
                            instanceId |-> GenerateInstanceId(s)]),
          window |-> EnsureSharedState(window, SelectionNamespace, DefaultVersion)]

\* The first getSelectionModeManager() of an instance.
GetSelectionModeManager(s) ==
    /\ s \notin DOMAIN ui.selection
    /\ managers' = AfterGetSelectionModeManager(s).managers
    /\ window' = AfterGetSelectionModeManager(s).window
    /\ ui' = AfterGetSelectionModeManager(s).ui
    /\ last' = Call("new SelectionModeManager", s, "", "", {}, FALSE)
    /\ UNCHANGED now


\* options.keepCurrentTab, as enter and exit test it
KeepsCurrentTab(options) == Truthy(options, "keepCurrentTab")

\* A faulty test of preventTabSwitching: an omitted option counts as false.
PreventsTabSwitching_DefaultFalse(options) == Truthy(options, "preventTabSwitching")

\* options.preventTabSwitching !== false, as enter and exit test it
PreventsTabSwitching(options) == NotFalse(options, "preventTabSwitching")

\* new MethodInterceptor(sdk.Editing, 'setSelection', ...) fails when the sdk
\* it is given has no Editing or Editing has no setSelection.
MissingTarget(sdk) == ~Has(sdk, "Editing") \/ ~Has(sdk.Editing, "setSelection")

\* enterSelectionMode from the line after the lock was acquired, called with
\* the given sdk: when the construction of the interceptor throws, what was
\* done before it stays done.
AfterEnterSelectionMode(u, s, sdk, options) ==
    LET c == u.selection[s].sidebarController
        i == SelectionInterceptor(s)
        u1 == [u EXCEPT !.selection[s].isActive = TRUE,
                        !.selection[s].currentOptions = {options}]
        u2 == IF KeepsCurrentTab(options) /\ c # Null
              THEN AfterSaveCurrentTab(Noted(u1, "saveCurrentTab"), c)
              ELSE u1
        u3 == IF PreventsTabSwitching(options) /\ c # Null
              THEN AfterPreventTabSwitching(Noted(u2, "preventTabSwitching"), c)
              ELSE u2
        u4 == [u3 EXCEPT !.selection[s].openLayersController = "activated"]
        u5 == AfterNewInterceptor(Noted(u4, "new MethodInterceptor"), i,
                                  SetSelectionSlot(s))
        u6 == [u5 EXCEPT !.selection[s].selectionInterceptor = i]
    IN  IF MissingTarget(sdk)
        THEN Noted(u4, "new MethodInterceptor")
        ELSE [AfterEnable(Noted(u6, "enable"), i) EXCEPT
                !.controls[s] = IF @ = {} THEN {"first"} ELSE @ \cup {"later"}]

\* A faulty guard: a manager that is active may enter again.
AlreadyActive_Never(u, s) == FALSE

\* if (this._isActive) throw
AlreadyActive(u, s) == u.selection[s].isActive

\* A faulty enterSelectionMode: _isActive is set before the lock is asked for.
EnterSelectionMode_ActiveBeforeLock(s, options) ==
    /\ s \in DOMAIN ui.selection
    /\ IF AlreadyActive(ui, s)
       THEN /\ ui' = Started(ui)
            /\ window' = window
            /\ last' = Call("enterSelectionMode", s, "", options, {}, "AlreadyActive")
       ELSE LET state == GetSharedState(s)
                lock == ReadLock(s, SelectionLock)
                u == Noted(Started(ui), "acquireLock")
            IN  IF LockBlocks(s, lock)
                THEN /\ ui' = [u EXCEPT !.selection[s].isActive = TRUE]
                     /\ window' = Ensured(s)
                     /\ last' = Call("enterSelectionMode", s, "", options, lock,
                                     "LockContention")
                ELSE /\ ui' = AfterEnterSelectionMode(u, s, ui.sdk[s], options)
                     /\ window' = WithState(s,
                            [state EXCEPT !.locks =
                                Put(state.locks, SelectionLock, NewLock(s, Undefined))])
                     /\ last' = Call("enterSelectionMode", s, "", options, lock,
                                     "returns")
    /\ UNCHANGED <<managers, now>>

\* manager.enterSelectionMode(sdk, options): res is "returns" or the error
\* thrown.
EnterSelectionModeOn(s, sdk, options) ==
    /\ s \in DOMAIN ui.selection
    /\ IF AlreadyActive(ui, s)
       THEN /\ ui' = Started(ui)
            /\ window' = window
            /\ last' = Call("enterSelectionMode", s, "", options, {}, "AlreadyActive")
       ELSE LET state == GetSharedState(s)
                lock == ReadLock(s, SelectionLock)
                u == Noted(Started(ui), "acquireLock")
            IN  IF LockBlocks(s, lock)
                THEN /\ ui' = u
                     /\ window' = Ensured(s)
                     /\ last' = Call("enterSelectionMode", s, "", options, lock,
                                     "LockContention")
                ELSE /\ ui' = AfterEnterSelectionMode(u, s, sdk, options)
                     /\ window' = WithState(s,
                            [state EXCEPT !.locks =
                                Put(state.locks, SelectionLock, NewLock(s, Undefined))])
                     /\ last' = Call("enterSelectionMode", s, "", options, lock,
                                     IF MissingTarget(sdk) THEN "MissingTarget"
                                     ELSE "returns")
    /\ UNCHANGED <<managers, now>>

\* manager.enterSelectionMode(sdk, options), with the instance's own sdk
EnterSelectionMode(s, options) == EnterSelectionModeOn(s, ui.sdk[s], options)

\* manager.isInSelectionMode()
IsInSelectionMode(s) ==
    /\ s \in DOMAIN ui.selection
    /\ ui' = Started(ui)
    /\ last' = Call("isInSelectionMode", s, "", "", {}, ui.selection[s].isActive)
    /\ UNCHANGED <<window, managers, now>>

\* _exitSelectionMode(cancelled), the part that acts on the UI objects.
AfterExitSelectionMode(u, s, cancelled) ==
    IF ~u.selection[s].isActive
    THEN u
    ELSE
    LET c == u.selection[s].sidebarController
        i == u.selection[s].selectionInterceptor
        options == CurrentOptions(u, s)
        u1 == [u EXCEPT !.selection[s].openLayersController = Null]
        u2 == IF PreventsTabSwitching(options) /\ c # Null
              THEN AfterAllowTabSwitching(Noted(u1, "allowTabSwitching"), c)
              ELSE u1
        u3 == IF KeepsCurrentTab(options) /\ c # Null
              THEN AfterRestoreSavedTab(Noted(u2, "restoreSavedTab"), c)
              ELSE u2
        u4 == IF i # Null
              THEN [AfterDisable(Noted(u3, "disable"), i)
                        EXCEPT !.selection[s].selectionInterceptor = Null]
              ELSE u3
        u5 == Noted(u4, "releaseLock")
        u6 == IF cancelled /\ Truthy(options, "onCancel")
              THEN Noted(u5, "onCancel")
              ELSE u5
    IN  [u6 EXCEPT !.selection[s].isActive = FALSE,
                   !.selection[s].currentOptions = {}]

\* A faulty exit: the lock is not released.
WindowAfterExitSelectionMode_KeepsLock(s) == window

\* A faulty exit: the lock is deleted whoever owns it.
WindowAfterExitSelectionMode_AnyOwner(s) ==
    LET state == GetSharedState(s)
    IN  IF ~ui.selection[s].isActive
        THEN window
        ELSE WithState(s, [state EXCEPT !.locks = Delete(state.locks, SelectionLock)])

\* _exitSelectionMode(cancelled), the part that acts on the shared state:
\* releaseLock('selectionMode').
WindowAfterExitSelectionMode(s) ==
    LET state == GetSharedState(s)
    IN  IF ~ui.selection[s].isActive
        THEN window
        ELSE IF \E l \in ReadLock(s, SelectionLock) : OwnedBy(s, l)
             THEN WithState(s, [state EXCEPT !.locks = Delete(state.locks, SelectionLock)])
             ELSE Ensured(s)

\* A faulty exit: the session is ended as cancelled.
ExitCancelled_True == TRUE

\* exit: () => this._exitSelectionMode(false)
ExitCancelled == FALSE

\* A faulty exit: the control object of a session that is over does nothing.
Exit_SessionBound(s) ==
    /\ s \in DOMAIN ui.selection
    /\ \E control \in ui.controls[s] :
        /\ IF control = "first" /\ "later" \in ui.controls[s]
           THEN ui' = Started(ui) /\ window' = window
           ELSE /\ ui' = AfterExitSelectionMode(Started(ui), s, ExitCancelled)
                /\ window' = WindowAfterExitSelectionMode(s)
        /\ last' = Call("exit", s, control, ui.selection[s].currentOptions,
                        ReadLock(s, SelectionLock), ui.selection[s].isActive)
    /\ UNCHANGED <<managers, now>>

\* exit() of a control object that an enterSelectionMode of the manager has
\* returned: the arrow function calls this._exitSelectionMode(false) on the
\* manager, whichever session the object is from.  The record of the call
\* has the control object (name), the options of the session it found (arg),
\* the lock it found and whether the manager was active (res).
Exit(s) ==
    /\ s \in DOMAIN ui.selection
    /\ \E control \in ui.controls[s] :
        /\ ui' = AfterExitSelectionMode(Started(ui), s, ExitCancelled)
        /\ window' = WindowAfterExitSelectionMode(s)
        /\ last' = Call("exit", s, control, ui.selection[s].currentOptions,
                        ReadLock(s, SelectionLock), ui.selection[s].isActive)
    /\ UNCHANGED <<managers, now>>

\* A faulty decision function: with captureOnly the selection is dropped
\* without telling onSelect.
SetSelectionDecision_CaptureSilently(u, s, objectType, ids) ==
    IF ~u.selection[s].isActive \/ u.selection[s].currentOptions = {}
    THEN [returns |-> CONTINUE_INVOCATION, onSelect |-> FALSE]
    ELSE LET options == CurrentOptions(u, s)
         IN  IF ~MatchesFilter(objectType, ids, options.filter)
             THEN [returns |-> Undefined, onSelect |-> FALSE]
             ELSE IF Truthy(options, "captureOnly")
                  THEN [returns |-> Undefined, onSelect |-> FALSE]
                  ELSE [returns |-> CONTINUE_INVOCATION,
                        onSelect |-> Truthy(options, "onSelect")]

\* The decision function the manager gives its setSelection interceptor:
\* what it returns for a selection of the given type and ids, and whether it
\* calls the session's onSelect.
SetSelectionDecision(u, s, objectType, ids) ==
    IF ~u.selection[s].isActive \/ u.selection[s].currentOptions = {}
    THEN [returns |-> CONTINUE_INVOCATION, onSelect |-> FALSE]
    ELSE LET options == CurrentOptions(u, s)
         IN  IF ~MatchesFilter(objectType, ids, options.filter)
             THEN [returns |-> Undefined, onSelect |-> FALSE]
             ELSE IF Truthy(options, "captureOnly")
                  THEN [returns |-> Undefined, onSelect |-> Truthy(options, "onSelect")]
                  ELSE [returns |-> CONTINUE_INVOCATION,
                        onSelect |-> Truthy(options, "onSelect")]

\* Whether a call of sdk.Editing.setSelection of instance s gets to the
\* native method: the wrapper of the manager's interceptor, when the slot
\* holds it, asks the decision function.
ReachesSetSelection(u, s, objectType, ids) ==
    \/ u.slots[SetSelectionSlot(s)] = Original
    \/ SetSelectionDecision(u, s, objectType, ids).returns = CONTINUE_INVOCATION

\* sdk.Editing.setSelection({selection: {objectType, ids}}) on the sdk of
\* instance s, called by any script.
AfterSetSelection(u, s, objectType, ids) ==
    LET u1 == IF /\ u.slots[SetSelectionSlot(s)] # Original
                 /\ SetSelectionDecision(u, s, objectType, ids).onSelect
              THEN Noted(u, "onSelect")
              ELSE u
    IN  IF ReachesSetSelection(u, s, objectType, ids)
        THEN Noted(u1, "setSelection")
        ELSE u1

\* res tells whether the native setSelection was invoked.
SetSelection(s, objectType, ids) ==
    /\ ui' = AfterSetSelection(Started(ui), s, objectType, ids)
    /\ last' = Call("setSelection", s, objectType, ids, {},
                    ReachesSetSelection(ui, s, objectType, ids))
    /\ UNCHANGED <<window, managers, now>>

\* { ...filter, ...newFilter }
Merged(filter, newFilter) ==
    [field \in DOMAIN filter \cup DOMAIN newFilter |->
        IF Has(newFilter, field) THEN newFilter[field] ELSE filter[field]]

\* updateFilter(newFilter) of a control object that an enterSelectionMode
\* of the manager has returned: the arrow function writes to the manager's
\* _currentOptions, whichever session the object is from.
UpdateFilter(s, newFilter) ==
    /\ s \in DOMAIN ui.selection
    /\ \E control \in ui.controls[s] :
        /\ ui' = IF ui.selection[s].currentOptions = {}
                 THEN Started(ui)
                 ELSE [Started(ui) EXCEPT !.selection[s].currentOptions =
                        {[CurrentOptions(ui, s) EXCEPT !.filter = Merged(@, newFilter)]}]
        /\ last' = Call("updateFilter", s, control, newFilter, {}, FALSE)
    /\ UNCHANGED <<window, managers, now>>

\* Time passes until the clock shows t.
Elapse(t) ==
    /\ t > now
    /\ now' = t
    /\ last' = Call("tick", "", "", "", {}, FALSE)
    /\ UNCHANGED <<window, managers, ui>>

----------------------------------------------------------------------------
(* The registry of modules and the patch engine (@wme-enhanced-sdk/sdk-patcher) *)

\* A faulty registry: no module declares a dependency.
allHooks_NoDeps ==
    [name \in {"Editing.Transactions", "DataModel.MapComments",
               "DataModel.PermanentHazards", "DataModel.BigJunctions", "Events",
               "Middlewares", "UI.SidebarManager", "UI.SelectionMode"} |->
        [hook |-> name]]

\* A faulty registry: the dependency is declared by the wrong module.
allHooks_DepsSwapped ==
    [name \in {"Editing.Transactions", "DataModel.MapComments",
               "DataModel.PermanentHazards", "DataModel.BigJunctions", "Events",
               "Middlewares", "UI.SidebarManager", "UI.SelectionMode"} |->
        IF name = "UI.SidebarManager"
        THEN [hook |-> name, deps |-> {"UI.SelectionMode"}]
        ELSE [hook |-> name]]

\* The registry: each module's hook (the rules it exports) and, for some, the
\* names of the modules it depends on.
allHooks ==
    ("Editing.Transactions" :> [hook |-> "EditingTransactionsHook"]) @@
    ("DataModel.MapComments" :> [hook |-> "DataModelMapCommentsHook"]) @@
    ("DataModel.PermanentHazards" :> [hook |-> "DataModelPermanentHazardsHook"]) @@
    ("DataModel.BigJunctions" :> [hook |-> "DataModelBigJunctionsModule"]) @@
    ("Events" :> [hook |-> "EventsModule"]) @@
    ("Middlewares" :> [hook |-> "MiddlewareModule"]) @@
    ("UI.SidebarManager" :> [hook |-> "SidebarManagerModule"]) @@
    ("UI.SelectionMode" :> [hook |-> "SelectionModeModule",
                            deps |-> {"UI.SidebarManager"}])

\* The registries resolveOrder is tried on: the repository's, and three in
\* which modules of it depend on each other in a chain, in a cycle of two
\* and in a cycle of three.
Registries ==
    {allHooks,
     [allHooks EXCEPT !["Events"] = [hook |-> "EventsModule",
                                     deps |-> {"UI.SelectionMode"}]],
     [allHooks EXCEPT !["UI.SidebarManager"] =
                          [hook |-> "SidebarManagerModule",
                           deps |-> {"UI.SelectionMode", "Middlewares"}]],
     [allHooks EXCEPT !["UI.SidebarManager"] = [hook |-> "SidebarManagerModule",
                                                deps |-> {"Events"}],
                      !["Events"] = [hook |-> "EventsModule",
                                     deps |-> {"UI.SelectionMode"}]]}

\* The rules of the sidebar module: three DefinePropertyRule(path, producer)
\* without options.  A path is written as its parts between the dots.
SidebarManagerModule ==
    <<[path |-> <<"Sidebar", "preventTabSwitching">>],
      [path |-> <<"Sidebar", "allowTabSwitching">>],
      [path |-> <<"Sidebar", "isTabSwitchingPrevented">>]>>

\* A faulty list of rules: the first rule defines the namespace itself.
SelectionModeModule_Namespace ==
    <<[path |-> <<"Editing">>, isFactory |-> TRUE],
      [path |-> <<"Editing", "isInSelectionMode">>]>>

\* The rules of the selection-mode module.
SelectionModeModule ==
    <<[path |-> <<"Editing", "enterSelectionMode">>, isFactory |-> TRUE],
      [path |-> <<"Editing", "isInSelectionMode">>]>>

\* The rules of the events module: a lifecycle rule (install, uninstall) and
\* three functions, each of which intercepts a method of sdk.Events and
\* returns its cleanup.
EventsModule ==
    <<[install |-> "effects", uninstall |-> "cleanups"],
      [intercepts |-> "on"], [intercepts |-> "once"], [intercepts |-> "off"]>>

\* The event definitions of the events module.
EVENTS == <<"wme-feature-editor-rendered">>

\* The rules behind the hooks of the registry, for the modules whose rules
\* are in the source; these are the modules a caller enables here.
ModuleRules ==
    ("Events" :> EventsModule) @@
    ("UI.SidebarManager" :> SidebarManagerModule) @@
    ("UI.SelectionMode" :> SelectionModeModule)

\* The lists of module names a caller passes: any of them, in any order.
Requests ==
    {names \in UNION {[1..n -> DOMAIN ModuleRules] :
                        n \in 0..Cardinality(DOMAIN ModuleRules)} :
        \A i, j \in DOMAIN names : names[i] = names[j] => i = j}

\* The modules the entry of name declares to depend on (none when the entry
\* has no deps).
DependsOn(registry, name) ==
    IF Has(registry[name], "deps") THEN registry[name].deps ELSE {}

\* The topological sort: of the names still pending, the first whose
\* dependencies are all in the order is put there next; when names are
\* pending and none can be put, they depend on each other in a cycle.
RECURSIVE Sorted(_, _, _)
Sorted(registry, pending, order) ==
    LET ready == {i \in DOMAIN pending :
                    DependsOn(registry, pending[i]) \subseteq
                        {order[k] : k \in DOMAIN order}}
        first == CHOOSE i \in ready : \A j \in ready : i <= j
    IN  IF pending = <<>>
        THEN [error |-> "none", order |-> order]
        ELSE IF ready = {}
             THEN [error |-> "CyclicDependency", order |-> <<>>]
             ELSE Sorted(registry,
                         SubSeq(pending, 1, first - 1)
                             \o SubSeq(pending, first + 1, Len(pending)),
                         Append(order, pending[first]))

\* What resolveOrder(names) returns, or the error it fails with.
ResolveOrderResult(registry, names) ==
    IF \E i \in DOMAIN names :
            ~(DependsOn(registry, names[i]) \subseteq {names[k] : k \in DOMAIN names})
    THEN [error |-> "MissingDependency", order |-> <<>>]
    ELSE Sorted(registry, names, <<>>)

\* resolveOrder(names) on a registry
ResolveOrder(registry, names) ==
    /\ ui' = Started(ui)
    /\ last' = Call("resolveOrder", "", "", [registry |-> registry, names |-> names],
                    {}, ResolveOrderResult(registry, names))
    /\ UNCHANGED <<window, managers, now>>

\* The engine writes at a path of the sdk: a namespace on the way that is
\* missing is created, one that exists is kept with its other members; at
\* the end of the path the property is defined, or removed when there is no
\* descriptor.
RECURSIVE DefineAt(_, _, _)
DefineAt(obj, path, descriptors) ==
    IF Len(path) = 1
    THEN IF descriptors = {}
         THEN Delete(obj, path[1])
         ELSE Put(obj, path[1], CHOOSE d \in descriptors : TRUE)
    ELSE Put(obj, path[1],
             DefineAt(IF Has(obj, path[1]) THEN obj[path[1]] ELSE EmptyObject,
                      Tail(path), descriptors))

\* A faulty install: a cleanup that an effect returns is not recorded.
EventsInstall_NoCleanups(u, s) ==
    [ui |-> [u EXCEPT !.calls = @ \o
                [i \in 1..(2 * Len(EVENTS)) |->
                    IF i % 2 = 1 THEN "effect " \o EVENTS[(i + 1) \div 2]
                    ELSE "Events.on"]],
     artifacts |-> [EVENT_CLEANUPS |-> <<>>]]

\* install({ sdk, artifacts }) of the events module's lifecycle rule: the
\* effect of each event definition is invoked (it subscribes to the editor's
\* event) and the cleanup it returns is put into the artifacts.
EventsInstall(u, s) ==
    [ui |-> [u EXCEPT !.calls = @ \o
                [i \in 1..(2 * Len(EVENTS)) |->
                    IF i % 2 = 1 THEN "effect " \o EVENTS[(i + 1) \div 2]
                    ELSE "Events.on"]],
     artifacts |-> [EVENT_CLEANUPS |-> EVENTS]]

\* uninstall({ artifacts }) of that rule: every cleanup in the artifacts is
\* invoked (it unsubscribes).
EventsUninstall(u, s, artifacts) ==
    [u EXCEPT !.calls = @ \o
        [i \in 1..(2 * Len(artifacts.EVENT_CLEANUPS)) |->
            IF i % 2 = 1 THEN "cleanup " \o artifacts.EVENT_CLEANUPS[(i + 1) \div 2]
            ELSE "Events.off"]]

\* installModule(name, ctx): the module's rules are applied in their order,
\* and what each gives back is kept for the uninstall.  A property rule
\* defines an accessor that invokes the producer on every read or, as a
\* factory, the value the producer returns; a lifecycle rule is installed and
\* its artifacts are kept; a function is called and its cleanup is kept.
AfterInstallModule(u, s, name) ==
    LET rules == ModuleRules[name]
        Kept(v, k) == [v EXCEPT !.engine[s].kept[name] = Append(@, k)]
        Applied(v, rule) ==
            IF Has(rule, "path")
            THEN Kept([v EXCEPT !.sdk[s] =
                        DefineAt(@, rule.path,
                                 {IF Truthy(rule, "isFactory")
                                  THEN [value |-> "function"]
                                  ELSE [get |-> rule.path]})],
                      [rule |-> rule])
            ELSE IF Has(rule, "install")
            THEN LET r == EventsInstall(v, s)
                 IN  Kept(r.ui, [rule |-> rule, artifacts |-> r.artifacts])
            ELSE LET i == EventsSlot(s, rule.intercepts) \o " methodInterceptor"
                 IN  Kept(AfterEnable(AfterNewInterceptor(v, i,
                                        EventsSlot(s, rule.intercepts)), i),
                          [rule |-> rule, cleanup |-> i])
        after[n \in 0..Len(rules)] ==
            IF n = 0
            THEN [Noted(u, "install " \o name) EXCEPT
                    !.engine[s].order = Append(@, name),
                    !.engine[s].kept = Put(@, name, <<>>)]
            ELSE Applied(after[n - 1], rules[n])
    IN  after[Len(rules)]

\* uninstallModule(name): what the module's rules gave back is undone in the
\* reverse of the order of installation.  A lifecycle rule is uninstalled
\* with its artifacts, a cleanup is called, a property is removed.
AfterUninstallModule(u, s, name) ==
    LET kept == u.engine[s].kept[name]
        Undone(v, k) ==
            IF Has(k.rule, "path")
            THEN [v EXCEPT !.sdk[s] = DefineAt(@, k.rule.path, {})]
            ELSE IF Has(k.rule, "install")
            THEN EventsUninstall(v, s, k.artifacts)
            ELSE AfterDisable(v, k.cleanup)
        after[n \in 0..Len(kept)] ==
            IF n = 0
            THEN Noted(u, "uninstall " \o name)
            ELSE Undone(after[n - 1], kept[Len(kept) + 1 - n])
    IN  [after[Len(kept)] EXCEPT
            !.engine[s].order = SelectSeq(@, LAMBDA m : m # name),
            !.engine[s].kept = Delete(@, name)]

\* enableAll(names, ctx) on the repository's registry: the modules are
\* installed in the resolved order, which the engine records; when the order
\* cannot be resolved nothing is installed.
EnableAll(s, names) ==
    LET r == ResolveOrderResult(allHooks, names)
        after[n \in 0..Len(r.order)] ==
            IF n = 0 THEN Started(ui) ELSE AfterInstallModule(after[n - 1], s, r.order[n])
    IN  /\ ui.engine[s].order = <<>>
        /\ ui' = after[Len(r.order)]
        /\ last' = Call("enableAll", s, "", names, {}, r)
        /\ UNCHANGED <<window, managers, now>>

\* disableAll(): the installed modules are uninstalled in the reverse of the
\* recorded order; res is that recorded order.
DisableAll(s) ==
    LET order == ui.engine[s].order
        after[n \in 0..Len(order)] ==
            IF n = 0 THEN Started(ui)
            ELSE AfterUninstallModule(after[n - 1], s, order[Len(order) + 1 - n])
    IN  /\ ui' = after[Len(order)]
        /\ last' = Call("disableAll", s, "", "", {}, order)
        /\ UNCHANGED <<window, managers, now>>

\* A script evaluates sdk.<path>, and with called also calls what it got:
\* sdk.<path>().  A property with an accessor invokes the rule's producer on
\* the read, and the value is what the producer returns: the producers of the
\* sidebar module call the method of the module's controller, the producer
\* of Editing.isInSelectionMode calls isInSelectionMode() of the manager.
\* Calling a value that is no function is a TypeError.  res is the value
\* read ("true" and "false" for the booleans) and the error thrown.
Access(s, path, called) ==
    LET c == SidebarTabController(s)
        u == IF c \in DOMAIN ui.sidebar
             THEN Started(ui)
             ELSE AfterNewController(Started(ui), c)
        g == AfterGetSelectionModeManager(s)
        Result(value) ==
            Call(IF called THEN "call" ELSE "read", s, path[1] \o "." \o path[2],
                 path, {},
                 [value |-> value,
                  error |-> IF called /\ value # "function" THEN "TypeError" ELSE "none"])
        String(b) == IF b THEN "true" ELSE "false"
    IN  /\ Len(path) = 2
        /\ Has(ui.sdk[s], path[1])
        /\ Has(ui.sdk[s][path[1]], path[2])
        /\ IF Has(ui.sdk[s][path[1]][path[2]], "value")
           THEN /\ ~called
                /\ ui' = Started(ui)
                /\ last' = Result(ui.sdk[s][path[1]][path[2]].value)
                /\ UNCHANGED <<window, managers>>
           ELSE IF path = <<"Editing", "isInSelectionMode">>
           THEN /\ ui' = g.ui
                /\ window' = g.window
                /\ managers' = g.managers
                /\ last' = Result(String(g.ui.selection[s].isActive))
           ELSE /\ ui' = CASE path[2] = "preventTabSwitching"
                                -> AfterPreventTabSwitching(
                                       Noted(u, "preventTabSwitching"), c)
                            [] path[2] = "allowTabSwitching"
                                -> AfterAllowTabSwitching(
                                       Noted(u, "allowTabSwitching"), c)
                            [] OTHER -> Noted(u, "isTabSwitchingPrevented")
                /\ last' = Result(IF path[2] = "isTabSwitchingPrevented"
                                  THEN String(IsTabSwitchingPreventedResult(u, c))
                                  ELSE Undefined)
                /\ UNCHANGED <<window, managers>>
        /\ UNCHANGED now

\* The function the events module gives its interceptor of sdk.Events.<method>,
\* for a call whose first argument is options (the empty set: undefined, no
\* argument or not an object) followed by rest more arguments: where the call
\* goes (to the original through triggerDefault, to the event bus, or nowhere
\* because destructuring undefined throws a TypeError) and with which
\* arguments, and the hooks of the event definition that are called after it.
EventsDecision(method, options, rest) ==
    IF options = {}
    THEN [to |-> "TypeError", args |-> <<>>, hooks |-> <<>>]
    ELSE LET o == CHOOSE x \in options : TRUE
             eventHandler == IF Has(o, "eventHandler") THEN o.eventHandler ELSE Undefined
             hook == IF method = "off" THEN "onUnsubscribed" ELSE "onSubscribed"
             default == [to |-> "original", args |-> <<options, rest>>, hooks |-> <<>>]
         IN  IF \/ rest > 0
                \/ ~Has(o, "eventName")
                \/ (method = "on" /\ ~Has(o, "eventHandler"))
             THEN default
             ELSE IF \A k \in DOMAIN EVENTS : EVENTS[k] # o.eventName
             THEN default
             ELSE [to |-> "eventBus",
                   args |-> IF method = "once" THEN <<o.eventName>>
                            ELSE <<o.eventName, eventHandler>>,
                   hooks |-> IF hook = "onSubscribed" THEN <<hook>> ELSE <<>>]

\* A script calls sdk.Events.<method>(options, ...rest) on the sdk of
\* instance s.  res is where the call went and with which arguments.
EventsMethod(s, method, options, rest) ==
    LET d == IF ui.slots[EventsSlot(s, method)] = Original
             THEN [to |-> "original", args |-> <<options, rest>>, hooks |-> <<>>]
             ELSE EventsDecision(method, options, rest)
        target == IF d.to = "original" THEN <<"Events." \o method>>
                  ELSE IF d.to = "eventBus" THEN <<"eventBus." \o method>>
                  ELSE <<>>
    IN  /\ ui' = [ui EXCEPT !.calls = target \o d.hooks]
        /\ last' = Call("Events", s, method, <<options, rest>>, {}, [to |-> d.to, args |-> d.args])
        /\ UNCHANGED <<window, managers, now>>

----------------------------------------------------------------------------
(* The single-lock SharedSelectionStateManager *)

\* A faulty SharedSelectionStateManager: the lock is stale as soon as its age
\* reaches 60000 ms.
SharedSelectionStateManager_AtTimeout(w, id, method, t) ==
    LET key == "__WME_SDK_PLUS_SELECTION_MODE__"
        ensured == IF Has(w, key)
                   THEN w
                   ELSE Put(w, key, [version |-> "1.0.0", isActive |-> FALSE,
                                     activeInstanceId |-> Null, timestamp |-> t])
        state == ensured[key]
        isStale == t - state.timestamp >= 60000
        setSharedState(isActive, activeInstanceId) ==
            Put(ensured, key, [state EXCEPT !.isActive = isActive,
                                            !.activeInstanceId = activeInstanceId,
                                            !.timestamp = t])
    IN  CASE method = "constructor" -> [window |-> ensured, res |-> FALSE]
          [] method = "acquireLock" ->
                IF ~state.isActive \/ isStale
                THEN [window |-> setSharedState(TRUE, id), res |-> TRUE]
                ELSE [window |-> ensured, res |-> FALSE]
          [] method = "releaseLock" ->
                IF state.activeInstanceId = id
                THEN [window |-> setSharedState(FALSE, Null), res |-> FALSE]
                ELSE [window |-> ensured, res |-> FALSE]
          [] method = "hasLock" ->
                [window |-> ensured, res |-> state.activeInstanceId = id]
          [] method = "isAnyInstanceActive" ->
                [window |-> ensured, res |-> state.isActive /\ ~isStale]

\* One call of a method of the SharedSelectionStateManager whose instance id
\* is id, at time t, in the window w: the window it leaves and what it
\* returns (FALSE stands for no result).  The one lock is the object at
\* window[SHARED_STATE_KEY]: {version, isActive, activeInstanceId, timestamp};
\* every write to it (_setSharedState) also sets its timestamp.
SharedSelectionStateManager(w, id, method, t) ==
    LET key == "__WME_SDK_PLUS_SELECTION_MODE__"
        ensured == IF Has(w, key)
                   THEN w
                   ELSE Put(w, key, [version |-> "1.0.0", isActive |-> FALSE,
                                     activeInstanceId |-> Null, timestamp |-> t])
        state == ensured[key]
        isStale == t - state.timestamp > 60000
        setSharedState(isActive, activeInstanceId) ==
            Put(ensured, key, [state EXCEPT !.isActive = isActive,
                                            !.activeInstanceId = activeInstanceId,
                                            !.timestamp = t])
    IN  CASE method = "constructor" -> [window |-> ensured, res |-> FALSE]
          [] method = "acquireLock" ->
                IF ~state.isActive \/ isStale
                THEN [window |-> setSharedState(TRUE, id), res |-> TRUE]
                ELSE [window |-> ensured, res |-> FALSE]
          [] method = "releaseLock" ->
                IF state.activeInstanceId = id
                THEN [window |-> setSharedState(FALSE, Null), res |-> FALSE]
                ELSE [window |-> ensured, res |-> FALSE]
          [] method = "hasLock" ->
                [window |-> ensured, res |-> state.activeInstanceId = id]
          [] method = "isAnyInstanceActive" ->
                [window |-> ensured, res |-> state.isActive /\ ~isStale]

\* The two managers side by side: the script that has just called a method of
\* its SharedStateManager calls, at the same time, the corresponding method of
\* its SharedSelectionStateManager.  res is the pair of what the two calls
\* answered: for acquireLock whether it succeeded, for releaseLock whether
\* the lock was freed, for the queries what they returned.
SideBySide ==
    /\ last.op \in {"new", "acquireLock", "releaseLock", "hasLock", "isLockHeld"}
    /\ LET m == last.mgr
           method == CASE last.op = "new" -> "constructor"
                       [] last.op = "isLockHeld" -> "isAnyInstanceActive"
                       [] OTHER -> last.op
           r == SharedSelectionStateManager(window, managers[m].instanceId, method, now)
           key == "__WME_SDK_PLUS_SELECTION_MODE__"
           ofShared == IF last.op = "acquireLock" THEN last.res.success ELSE last.res
           ofSingle == IF method = "releaseLock"
                       THEN window[key].isActive /\ ~r.window[key].isActive
                       ELSE r.res
       IN  /\ window' = r.window
           /\ last' = Call("sideBySide", m, method, last.name, last.lock,
                           <<ofShared, ofSingle>>)
    /\ UNCHANGED <<managers, now, ui>>

----------------------------------------------------------------------------
(* Specifications *)

\* One step of the managers MS, with arguments drawn from the given sets.
Step(MS, NS, VS) ==
    \/ Tick
    \/ \E m \in MS : Construct(m)
    \/ \E m \in MS, n \in NS, md \in Metadata : AcquireLock(m, n, md)
    \/ \E m \in MS, n \in NS : ReleaseLock(m, n)
    \/ \E m \in MS, n \in NS : HasLock(m, n)
    \/ \E m \in MS, n \in NS : IsLockHeld(m, n)
    \/ \E m \in MS, n \in NS : GetLockInfo(m, n)
    \/ \E m \in MS, b \in BOOLEAN : ListLocks(m, b)
    \/ \E m \in MS : ReleaseAllLocks(m)
    \/ \E m \in MS : CleanupStaleLocks(m)
    \/ \E m \in MS, k \in Keys, v \in VS : SetSharedData(m, k, v)
    \/ \E m \in MS, k \in Keys, d \in Defaults : GetSharedData(m, k, d)
    \/ \E m \in MS, k \in Keys : DeleteSharedData(m, k)
    \/ \E m \in MS : ClearSharedData(m)

\* Two managers of one namespace with the same timeout.
Next == Step({"A", "B"}, LockNames, Values)

Spec == Init /\ [][Next]_vars

\* Two managers of one namespace with different timeouts.
NextMixed == Step({"A", "C"}, LockNames, Values)

SpecMixed == Init /\ [][NextMixed]_vars

\* Two managers of one namespace whose callers also write to the objects that
\* getLockInfo gave them.
NextQuery ==
    \/ Step({"A", "B"}, {"x"}, {"v1"})
    \/ \E m \in {"A", "B"}, owner \in {"intruder"} :
            ChangeLockInfo(m, "x", "ownerId", owner)
    \/ \E m \in {"A", "B"}, t \in {MaxTime + 1} :
            ChangeLockInfo(m, "x", "timestamp", t)
    \/ \E m \in {"A", "B"}, md \in {"m2"} :
            ChangeLockInfo(m, "x", "metadata", md)

SpecQuery == Init /\ [][NextQuery]_vars

\* Two scripts, each with a SharedStateManager of timeout 60000 ms, used for
\* one lock, and a SharedSelectionStateManager: every call on the first is
\* followed by the same call on the second before anything else happens.
NextTwin ==
    LET Answered ==
            last.op \notin {"new", "acquireLock", "releaseLock", "hasLock", "isLockHeld"}
    IN  \/ SideBySide
        \/ \E t \in {1, 60000, 60001, 60002, 120002, 120003} : Answered /\ Elapse(t)
        \/ \E m \in {"E", "F"} : Answered /\ Construct(m)
        \/ \E m \in {"E", "F"} : Answered /\ AcquireLock(m, "x", Undefined)
        \/ \E m \in {"E", "F"} : Answered /\ ReleaseLock(m, "x")
        \/ \E m \in {"E", "F"} : Answered /\ HasLock(m, "x")
        \/ \E m \in {"E", "F"} : Answered /\ IsLockHeld(m, "x")

SpecTwin == Init /\ [][NextTwin]_vars

\* Two managers in two namespaces.
NextIso == Step({"A", "D"}, {"x"}, {"v1"})

SpecIso == Init /\ [][NextIso]_vars

\* Two managers of one namespace using the key/value store only, with keys
\* that include a name inherited from Object.prototype.
DataKeys == Keys \cup ObjectPrototypeKeys

NextData ==
    \/ \E m \in {"A", "B"} : Construct(m)
    \/ \E m \in {"A", "B"}, k \in DataKeys, v \in Values : SetSharedData(m, k, v)
    \/ \E m \in {"A", "B"}, k \in DataKeys, d \in Defaults : GetSharedData(m, k, d)
    \/ \E m \in {"A", "B"}, k \in DataKeys : DeleteSharedData(m, k)
    \/ \E m \in {"A", "B"} : ClearSharedData(m)

SpecData == Init /\ [][NextData]_vars

\* One sidebar controller and the page's navigation.
Urls ==
    {Url(o, p, t, q) : o \in {"o1", "o2"}, p \in {"p1", "p2"},
                       t \in {"t1", "t2", Undefined}, q \in {"q1", "q2"}}

NextSidebar ==
    \/ NewController("S1")
    \/ PreventTabSwitching("S1")
    \/ AllowTabSwitching("S1")
    \/ IsTabSwitchingPrevented("S1")
    \/ SaveCurrentTab("S1")
    \/ RestoreSavedTab("S1")
    \/ Destroy("S1")
    \/ \E url \in Urls : PushState(url)

SpecSidebar == Init /\ [][NextSidebar]_vars

\* The URLs of the tabs of one page.
TabUrls == {Url("o1", "p1", t, "q1") : t \in {"t1", "t2"}}

\* The two controllers of one instance, the sidebar module's and the
\* selection-mode module's, on the one window.history.pushState.
StackedControllers == {SidebarTabController("S1"), "S1"}

NextStack ==
    \/ \E c \in StackedControllers : NewController(c)
    \/ \E c \in StackedControllers : PreventTabSwitching(c)
    \/ \E c \in StackedControllers : AllowTabSwitching(c)
    \/ \E c \in StackedControllers : IsTabSwitchingPrevented(c)
    \/ \E url \in TabUrls : PushState(url)

SpecStack == Init /\ [][NextStack]_vars

\* Two instances, each with its SelectionModeManager, while time passes
\* and the editor switches tabs.
NoFilter == [types |-> {}]

SessionOptions ==
    {[filter |-> NoFilter],
     [filter |-> NoFilter, preventTabSwitching |-> FALSE, keepCurrentTab |-> TRUE,
      onCancel |-> TRUE],
     [filter |-> NoFilter, preventTabSwitching |-> TRUE, keepCurrentTab |-> FALSE]}

TimePoints == {SelectionStaleLockTimeout, SelectionStaleLockTimeout + 1}

NextSelection ==
    \/ \E s \in InstanceIds : GetSelectionModeManager(s)
    \/ \E s \in InstanceIds, o \in SessionOptions : EnterSelectionMode(s, o)
    \/ \E s \in InstanceIds : Exit(s)
    \/ \E s \in InstanceIds : IsInSelectionMode(s)
    \/ \E t \in TimePoints : Elapse(t)
    \/ \E url \in TabUrls : PushState(url)

SpecSelection == Init /\ [][NextSelection]_vars

\* The same, with callers that also pass enterSelectionMode an sdk object
\* that has no Editing.setSelection.
NextBareSdk ==
    \/ NextSelection
    \/ \E s \in InstanceIds, o \in SessionOptions :
            EnterSelectionModeOn(s, [Editing |-> EmptyObject], o)

SpecBareSdk == Init /\ [][NextBareSdk]_vars

\* The module resolution, on the registries and by the engine of one
\* instance on the repository's registry, and the calls that scripts make
\* on the Events methods of that instance's sdk.
NextResolve ==
    \/ \E registry \in Registries, names \in Requests : ResolveOrder(registry, names)
    \/ \E names \in Requests : EnableAll("S1", names)
    \/ DisableAll("S1")
    \/ \E method \in {"on", "once", "off"}, rest \in {0, 1},
          options \in {{}, {[eventName |-> EVENTS[1], eventHandler |-> "handler"]},
                       {[eventName |-> EVENTS[1]]}, {[eventHandler |-> "handler"]},
                       {[eventName |-> "wme-map-move-end", eventHandler |-> "handler"]}} :
            EventsMethod("S1", method, options, rest)

SpecResolve == Init /\ [][NextResolve]_vars

\* One instance whose engine enables and disables the modules, while
\* scripts use the properties the modules define and the editor switches
\* tabs.
NextEngine ==
    \/ \E names \in Requests : EnableAll("S1", names)
    \/ DisableAll("S1")
    \/ \E m \in {"UI.SidebarManager", "UI.SelectionMode"} :
          \E i \in DOMAIN ModuleRules[m], called \in BOOLEAN :
            Access("S1", ModuleRules[m][i].path, called)
    \/ \E o \in SessionOptions : EnterSelectionMode("S1", o)
    \/ Exit("S1")
    \/ \E url \in TabUrls : PushState(url)

SpecEngine == Init /\ [][NextEngine]_vars

\* One instance whose sessions filter the selections that scripts make.
FilterOptions ==
    {[filter |-> [types |-> {"segment"}, allowedIds |-> {1}], onSelect |-> TRUE],
     [filter |-> [types |-> {"segment"}], captureOnly |-> TRUE, onSelect |-> TRUE],
     [filter |-> [allowedIds |-> {1}], captureOnly |-> FALSE]}

NewFilters == {[allowedIds |-> {2}], [types |-> {"venue"}], [allowedIds |-> {}]}

ObjectTypes == {"segment", "venue"}

IdLists == {{1}, {2}, {1, 2}}

NextFilter ==
    \/ GetSelectionModeManager("S1")
    \/ \E o \in FilterOptions : EnterSelectionMode("S1", o)
    \/ Exit("S1")
    \/ \E f \in NewFilters : UpdateFilter("S1", f)
    \/ \E t \in ObjectTypes, ids \in IdLists : SetSelection("S1", t, ids)

SpecFilter == Init /\ [][NextFilter]_vars

----------------------------------------------------------------------------
(* Vocabulary of the claims *)

\* The locks and the data of manager m's namespace in the current state.
LocksOf(m) == window[managers[m].namespace].locks
DataOf(m) == window[managers[m].namespace].data

\* The step just taken is the call op by manager m.
Called(op, m) == last'.op = op /\ last'.mgr = m

\* The age of a lock exceeds manager m's staleLockTimeout.
Expired(m, lock) == now - lock.timestamp > managers[m].staleLockTimeout

----------------------------------------------------------------------------
(* C1 *)

\* C1: acquireLock(name, metadata) on a namespace that holds no lock called
\* name returns success = true with wasStale = false, and afterwards the
\* namespace holds a lock for name owned by the caller, with the metadata
\* that was passed.
C1_AcquireAbsentLock ==
    [][\A m \in DOMAIN managers, n \in LockNames, md \in Metadata :
        (Called("acquireLock", m) /\ last'.name = n /\ last'.arg = md
            /\ n \notin DOMAIN LocksOf(m))
        => /\ last'.res = [success |-> TRUE, wasStale |-> FALSE]
           /\ n \in DOMAIN LocksOf(m)'
           /\ LocksOf(m)'[n].ownerId = managers[m].instanceId
           /\ LocksOf(m)'[n].metadata = md
           /\ \A o \in DOMAIN LocksOf(m)' \ {n} :
                o \in DOMAIN LocksOf(m) /\ LocksOf(m)'[o] = LocksOf(m)[o]]_vars

\* A manager has acquired, with metadata, a lock that did not exist.
C1_Witness ==
    /\ last.op = "acquireLock"
    /\ last.lock = {}
    /\ last.arg = "m1"
    /\ last.res.success
    /\ LocksOf(last.mgr)[last.name].metadata = "m1"

----------------------------------------------------------------------------
(* C2 *)

\* C2: when a lock is held by another instance and is not stale for the
\* caller, acquireLock returns success = false with currentOwnerId the id of
\* the holder, and nothing in the window changes.
C2_ContentionFails ==
    [][\A a \in DOMAIN managers, b \in DOMAIN managers, n \in LockNames :
        (Called("acquireLock", b) /\ last'.name = n /\ a # b
            /\ managers[a].namespace = managers[b].namespace
            /\ n \in DOMAIN LocksOf(b)
            /\ LocksOf(b)[n].ownerId = managers[a].instanceId
            /\ ~Expired(b, LocksOf(b)[n]))
        => /\ last'.res.success = FALSE
           /\ last'.res.currentOwnerId = managers[a].instanceId
           /\ window' = window]_vars

\* B was refused a lock that A holds.
C2_Witness ==
    /\ last.op = "acquireLock"
    /\ last.mgr = "B"
    /\ "A" \in DOMAIN managers
    /\ last.res.success = FALSE
    /\ last.res.currentOwnerId = managers["A"].instanceId
    /\ \E l \in last.lock : l.metadata = "m1" /\ LocksOf("B")[last.name] = l

----------------------------------------------------------------------------
(* C3 *)

\* C3: once the age of A's lock exceeds the staleLockTimeout, acquireLock by
\* another instance B of the same namespace and timeout returns success =
\* true with wasStale = true and makes B the owner; and whenever A calls
\* releaseLock on a name whose lock it does not own (B's lock, or no lock),
\* the call returns false and leaves the window as it is.
C3_StaleTakeover ==
    [][\A a \in DOMAIN managers, b \in DOMAIN managers, n \in LockNames :
        (a # b /\ managers[a].namespace = managers[b].namespace
            /\ managers[a].staleLockTimeout = managers[b].staleLockTimeout)
        => /\ (Called("acquireLock", b) /\ last'.name = n
                /\ n \in DOMAIN LocksOf(b)
                /\ LocksOf(b)[n].ownerId = managers[a].instanceId
                /\ Expired(b, LocksOf(b)[n]))
              => /\ last'.res = [success |-> TRUE, wasStale |-> TRUE]
                 /\ LocksOf(b)'[n].ownerId = managers[b].instanceId
                 /\ LocksOf(b)'[n].timestamp = now
           /\ (Called("releaseLock", a) /\ last'.name = n
                /\ n \in DOMAIN LocksOf(a)
                /\ LocksOf(a)[n].ownerId = managers[b].instanceId)
              => /\ last'.res = FALSE
                 /\ window' = window]_vars

\* B has taken over a lock of A whose age exceeded the timeout.
C3_Witness ==
    /\ last.op = "acquireLock"
    /\ last.mgr = "B"
    /\ "A" \in DOMAIN managers
    /\ \E l \in last.lock :
        /\ l.ownerId = managers["A"].instanceId
        /\ now - l.timestamp > managers["B"].staleLockTimeout
    /\ last.res.wasStale
    /\ LocksOf("B")[last.name].ownerId = managers["B"].instanceId

----------------------------------------------------------------------------
(* C4 *)

\* C4: releaseLock(name) returns true exactly when the lock exists and is
\* owned by the caller, and then deletes that lock and nothing else; in every
\* other case it returns false and changes nothing.
C4_ReleaseOnlyOwn ==
    [][\A m \in DOMAIN managers, n \in LockNames :
        (Called("releaseLock", m) /\ last'.name = n)
        => IF n \in DOMAIN LocksOf(m) /\ LocksOf(m)[n].ownerId = managers[m].instanceId
           THEN /\ last'.res = TRUE
                /\ DOMAIN LocksOf(m)' = DOMAIN LocksOf(m) \ {n}
                /\ \A o \in DOMAIN LocksOf(m)' : LocksOf(m)'[o] = LocksOf(m)[o]
                /\ DataOf(m)' = DataOf(m)
           ELSE /\ last'.res = FALSE
                /\ window' = window]_vars

\* A manager was refused the release of a lock that another instance owns.
C4_Witness ==
    /\ last.op = "releaseLock"
    /\ last.res = FALSE
    /\ \E l \in last.lock :
        /\ l.ownerId # managers[last.mgr].instanceId
        /\ LocksOf(last.mgr)[last.name] = l

----------------------------------------------------------------------------
(* C5 *)

\* The lock a query has just read is stale for the manager that asked.
QueriedStale(l) == now - l.timestamp > managers[last.mgr].staleLockTimeout

\* C5 as claimed: for a lock whose age exceeds the caller's timeout, hasLock
\* is false for every instance, the recorded owner included, isLockHeld is
\* false and getLockInfo returns null.
C5_StaleNotHeldByAnyone ==
    \A l \in last.lock :
        QueriedStale(l) =>
            /\ last.op = "hasLock" => last.res = FALSE
            /\ last.op = "isLockHeld" => last.res = FALSE
            /\ last.op = "getLockInfo" => last.res = NullInfo

\* C5 amended: for a lock whose age exceeds the caller's timeout, isLockHeld
\* is false and getLockInfo returns null; hasLock does not look at the age:
\* it is true for the instance recorded as owner and false for every other.
C5_StaleQueries ==
    \A l \in last.lock :
        QueriedStale(l) =>
            /\ last.op = "hasLock" =>
                last.res = (l.ownerId = managers[last.mgr].instanceId)
            /\ last.op = "isLockHeld" => last.res = FALSE
            /\ last.op = "getLockInfo" => last.res = NullInfo

\* The owner of a stale lock has asked hasLock and was told true.
C5_Witness ==
    /\ last.op = "hasLock"
    /\ \E l \in last.lock : QueriedStale(l)
    /\ last.res = TRUE

----------------------------------------------------------------------------
(* C6 *)

\* C6: releaseAllLocks() by instance I deletes exactly the locks whose owner
\* is I, fresh or stale, returns how many it deleted and leaves the locks of
\* the other instances, the shared data and the other namespaces unchanged.
C6_ReleaseAllOwn ==
    [][\A m \in DOMAIN managers :
        Called("releaseAllLocks", m)
        => /\ DOMAIN LocksOf(m)' =
                {n \in DOMAIN LocksOf(m) :
                    LocksOf(m)[n].ownerId # managers[m].instanceId}
           /\ \A n \in DOMAIN LocksOf(m)' : LocksOf(m)'[n] = LocksOf(m)[n]
           /\ last'.res = Cardinality(DOMAIN LocksOf(m) \ DOMAIN LocksOf(m)')
           /\ DataOf(m)' = DataOf(m)
           /\ \A ns \in DOMAIN window \ {managers[m].namespace} :
                window'[ns] = window[ns]]_vars

\* releaseAllLocks has deleted a stale lock of the caller and has left the
\* lock of another instance in place.
C6_Witness ==
    /\ last.op = "releaseAllLocks"
    /\ last.res = 1
    /\ \E l \in last.lock : QueriedStale(l)
    /\ \E n \in DOMAIN LocksOf(last.mgr) :
        LocksOf(last.mgr)[n].ownerId # managers[last.mgr].instanceId

----------------------------------------------------------------------------
(* C7 *)

\* C7: cleanupStaleLocks() deletes every lock of the namespace whose age
\* exceeds the caller's timeout, whoever owns it, deletes no other lock and
\* returns the number of locks it deleted.
C7_CleanupStale ==
    [][\A m \in DOMAIN managers :
        Called("cleanupStaleLocks", m)
        => /\ DOMAIN LocksOf(m)' =
                {n \in DOMAIN LocksOf(m) : ~Expired(m, LocksOf(m)[n])}
           /\ \A n \in DOMAIN LocksOf(m)' : LocksOf(m)'[n] = LocksOf(m)[n]
           /\ last'.res = Cardinality(DOMAIN LocksOf(m) \ DOMAIN LocksOf(m)')]_vars

\* cleanupStaleLocks has deleted a stale lock of another instance and has
\* kept a fresh lock.
C7_Witness ==
    /\ last.op = "cleanupStaleLocks"
    /\ last.res = 1
    /\ \E l \in last.lock : l.ownerId # managers[last.mgr].instanceId
    /\ \E n \in DOMAIN LocksOf(last.mgr) : ~QueriedStale(LocksOf(last.mgr)[n])

----------------------------------------------------------------------------
(* C8 *)

\* C8: after cleanupStaleLocks() by a manager with timeout T2, no lock is
\* left that was acquired by a manager of the same namespace with a shorter
\* timeout T1 and whose age exceeds T1: such locks are deleted even while
\* their age is below T2, and the caller's listLocks() does not list them.
C8_CleanupByOwnersTimeout ==
    last.op = "cleanupStaleLocks" =>
        \A n \in DOMAIN LocksOf(last.mgr), o \in DOMAIN managers :
            (/\ LocksOf(last.mgr)[n].ownerId = managers[o].instanceId
             /\ managers[o].staleLockTimeout < managers[last.mgr].staleLockTimeout)
            => now - LocksOf(last.mgr)[n].timestamp <= managers[o].staleLockTimeout

----------------------------------------------------------------------------
(* C9 *)

\* C9: clearSharedData() empties the data of the namespace and leaves its
\* locks as they are: listLocks, hasLock, isLockHeld and getLockInfo answer
\* every manager after the call what they answered before it.
C9_ClearKeepsLocks ==
    [][\A m \in DOMAIN managers :
        Called("clearSharedData", m)
        => /\ DOMAIN DataOf(m)' = {}
           /\ LocksOf(m)' = LocksOf(m)
           /\ \A q \in DOMAIN managers, n \in LockNames, b \in BOOLEAN :
                /\ ListLocksResult(q, b)' = ListLocksResult(q, b)
                /\ HasLockResult(q, n)' = HasLockResult(q, n)
                /\ IsLockHeldResult(q, n)' = IsLockHeldResult(q, n)
                /\ GetLockInfoResult(q, n)' = GetLockInfoResult(q, n)]_vars

\* clearSharedData has run in a namespace that holds a lock.
C9_Witness ==
    /\ last.op = "clearSharedData"
    /\ DOMAIN DataOf(last.mgr) = {}
    /\ \E n \in DOMAIN LocksOf(last.mgr) : HasLockResult(last.mgr, n)

----------------------------------------------------------------------------
(* C10 *)

\* C10: a call on a manager of one namespace, its construction included,
\* changes nothing in any other namespace: the storage of every other
\* namespace is the same after the call, and so is every answer that a
\* manager of another namespace gets from its queries and whether its
\* acquireLock would be refused.
C10_NamespaceIsolation ==
    [][\A m \in DOMAIN managers', ns \in DOMAIN window :
        (last'.mgr = m /\ managers'[m].namespace # ns)
        => /\ ns \in DOMAIN window'
           /\ window'[ns] = window[ns]
           /\ \A q \in DOMAIN managers :
                managers[q].namespace = ns
                => \A n \in LockNames, k \in Keys, d \in Defaults :
                    /\ ListLocksResult(q, TRUE)' = ListLocksResult(q, TRUE)
                    /\ HasLockResult(q, n)' = HasLockResult(q, n)
                    /\ IsLockHeldResult(q, n)' = IsLockHeldResult(q, n)
                    /\ GetLockInfoResult(q, n)' = GetLockInfoResult(q, n)
                    /\ GetSharedDataResult(q, k, d)' = GetSharedDataResult(q, k, d)
                    /\ LockBlocks(q, ReadLock(q, n))' = LockBlocks(q, ReadLock(q, n))]_vars

\* The lock x is held in both namespaces at once, and the key that A has
\* set in its namespace reads as the default value in D's.
C10_Witness ==
    /\ last.op = "getSharedData"
    /\ last.mgr = "D"
    /\ last.res = "d"
    /\ "A" \in DOMAIN managers
    /\ managers["A"].namespace # managers["D"].namespace
    /\ last.name \in DOMAIN DataOf("A")
    /\ DataOf("A")[last.name] = "v1"
    /\ IsLockHeldResult("A", "x")
    /\ IsLockHeldResult("D", "x")
    /\ HasLockResult("A", "x")
    /\ HasLockResult("D", "x")

----------------------------------------------------------------------------
(* C11 *)

\* C11: the data of a namespace is a key/value store common to its
\* managers: getSharedData(k, d) by any manager returns the value last
\* stored under k by any manager of the namespace, and d when k is not
\* stored; deleteSharedData(k) returns true exactly when k was stored, and
\* after it getSharedData(k, d) returns d to every manager.
C11_SharedDataStore ==
    [][\A m \in DOMAIN managers :
        /\ Called("getSharedData", m)
           => last'.res = IF Has(DataOf(m), last'.name)
                          THEN DataOf(m)[last'.name]
                          ELSE last'.arg
        /\ Called("deleteSharedData", m)
           => /\ last'.res = Has(DataOf(m), last'.name)
              /\ \A q \in DOMAIN managers, k \in DataKeys, d \in Defaults :
                    (managers[q].namespace = managers[m].namespace /\ last'.name = k)
                    => GetSharedDataResult(q, k, d)' = d]_vars

----------------------------------------------------------------------------
(* Vocabulary of the claims about the UI modules *)

\* isInSelectionMode() of manager s in the current state.
Active(s) == ui.selection[s].isActive

\* The call named call was made by the last operation.
Made(call) == \E k \in DOMAIN ui.calls : ui.calls[k] = call

\* The 'selectionMode' lock as manager s reads it: a set of 0 or 1 lock.
SelectionLockOf(s) == ReadLock(s, SelectionLock)

----------------------------------------------------------------------------
(* C12 *)

\* C12: of the SelectionModeManager instances that share the window, at
\* most one is in selection mode at any time, whatever the interleaving of
\* enterSelectionMode, exit and the passage of time.
C12_AtMostOneActive ==
    \A s \in DOMAIN ui.selection, r \in DOMAIN ui.selection :
        (Active(s) /\ Active(r)) => s = r

----------------------------------------------------------------------------
(* C13 *)

\* C13: enterSelectionMode on a manager that is in selection mode throws
\* 'Already in selection mode' and changes nothing: the manager stays active
\* with the options of its session, the shared state and so the
\* 'selectionMode' lock are as before, and no call is made on the sidebar
\* controller, on an interceptor or on the lock.
C13_EnterWhileActiveThrows ==
    [][\A s \in DOMAIN ui.selection :
        (Called("enterSelectionMode", s) /\ Active(s))
        => /\ last'.res = "AlreadyActive"
           /\ ui'.selection = ui.selection
           /\ ui'.sidebar = ui.sidebar
           /\ ui'.interceptors = ui.interceptors
           /\ ui'.slots = ui.slots
           /\ ui'.calls = <<>>
           /\ window' = window]_vars

\* An active manager that holds the lock has refused to enter with options
\* other than those of its session.
C13_Witness ==
    /\ last.op = "enterSelectionMode"
    /\ last.res = "AlreadyActive"
    /\ Active(last.mgr)
    /\ last.arg # CurrentOptions(ui, last.mgr)
    /\ \E l \in SelectionLockOf(last.mgr) : OwnedBy(last.mgr, l)

----------------------------------------------------------------------------
(* C14 *)

\* enterSelectionMode by manager s would get the lock in the current state.
CanAcquire(s) == ~LockBlocks(s, SelectionLockOf(s))

\* C14: the lifecycle of one manager.  isInSelectionMode() is false after
\* construction, true after every enterSelectionMode that returns and false
\* after exit(); an enterSelectionMode that throws and an exit() on an
\* inactive manager leave isInSelectionMode() and the lock as they are; an
\* exit() that ends a session leaves no 'selectionMode' lock owned by the
\* manager, and when the lock was the manager's own it is removed, so that
\* an enterSelectionMode that follows on the same manager gets the lock and
\* returns.
C14_Lifecycle ==
    [][\A s \in DOMAIN ui'.selection :
        /\ Called("new SelectionModeManager", s) => ~Active(s)'
        /\ (Called("isInSelectionMode", s) => last'.res = Active(s))
        /\ (Called("enterSelectionMode", s) /\ last'.res = "returns")
           => Active(s)' /\ \E l \in SelectionLockOf(s)' : OwnedBy(s, l)
        /\ (Called("enterSelectionMode", s) /\ last'.res # "returns")
           => Active(s)' = Active(s) /\ SelectionLockOf(s)' = SelectionLockOf(s)
        /\ (Called("enterSelectionMode", s) /\ ~Active(s) /\ CanAcquire(s))
           => last'.res = "returns"
        /\ (Called("exit", s) /\ ~Active(s))
           => UNCHANGED <<window, managers, now>> /\ ui' = Started(ui)
        /\ (Called("exit", s) /\ Active(s))
           => /\ ~Active(s)'
              /\ \A l \in SelectionLockOf(s)' : ~OwnedBy(s, l)
              /\ (\E l \in SelectionLockOf(s) : OwnedBy(s, l))
                 => SelectionLockOf(s)' = {} /\ CanAcquire(s)']_vars

\* exit() has ended a session of a manager that held the lock: the manager
\* is inactive, the lock is gone and the manager could enter again.
C14_Witness ==
    /\ last.op = "exit"
    /\ last.res
    /\ \E l \in last.lock : OwnedBy(last.mgr, l)
    /\ ~Active(last.mgr)
    /\ SelectionLockOf(last.mgr) = {}
    /\ CanAcquire(last.mgr)

----------------------------------------------------------------------------
(* C15 *)

\* C15: no operation invokes the onCancel callback of a session; in
\* particular the exit() that ends a session whose options have an onCancel
\* does not.
C15_OnCancelNeverInvoked == ~Made("onCancel")

\* exit() has ended a session whose options had an onCancel callback.
C15_Witness ==
    /\ last.op = "exit"
    /\ last.res
    /\ \E o \in last.arg : Truthy(o, "onCancel")
    /\ Made("releaseLock")
    /\ ~Active(last.mgr)

----------------------------------------------------------------------------
(* C16 *)

\* C16: an enterSelectionMode that returns calls the sidebar controller's
\* preventTabSwitching() exactly when options.preventTabSwitching is not
\* false, an omitted option included, and one that throws does not call it;
\* the options of a session stay what they were on enter, and the exit() that
\* ends the session calls allowTabSwitching() exactly when those options'
\* preventTabSwitching is not false, that is exactly when enter has called
\* preventTabSwitching(); an exit() on an inactive manager calls neither.
C16_PreventAndAllow ==
    [][\A s \in DOMAIN ui.selection :
        /\ (Called("enterSelectionMode", s) /\ last'.res = "returns")
           => /\ Made("preventTabSwitching")' <=> NotFalse(last'.arg, "preventTabSwitching")
              /\ ui'.selection[s].currentOptions = {last'.arg}
              /\ ~Made("allowTabSwitching")'
        /\ (Called("enterSelectionMode", s) /\ last'.res # "returns")
           => ~Made("preventTabSwitching")' /\ ~Made("allowTabSwitching")'
        /\ (Called("exit", s) /\ Active(s))
           => /\ Made("allowTabSwitching")'
                    <=> NotFalse(CurrentOptions(ui, s), "preventTabSwitching")
              /\ ~Made("preventTabSwitching")'
        /\ (Called("exit", s) /\ ~Active(s))
           => ~Made("preventTabSwitching")' /\ ~Made("allowTabSwitching")'
        /\ ~(Called("enterSelectionMode", s) \/ Called("exit", s))
           => ui'.selection[s].currentOptions = ui.selection[s].currentOptions]_vars

\* enterSelectionMode, called without the option preventTabSwitching, has
\* called preventTabSwitching(), and tab switching is prevented.
C16_Witness ==
    /\ last.op = "enterSelectionMode"
    /\ last.res = "returns"
    /\ ~Has(last.arg, "preventTabSwitching")
    /\ Made("preventTabSwitching")
    /\ IsTabSwitchingPreventedResult(ui, last.mgr)

----------------------------------------------------------------------------
(* C17 *)

\* C17: keepCurrentTab defaults to true: an enterSelectionMode that returns
\* and was called without the option keepCurrentTab calls saveCurrentTab(),
\* so that the controller has saved the tab of the page, and the exit() that
\* ends that session calls restoreSavedTab().
C17_KeepCurrentTabDefaultsToTrue ==
    [][\A s \in DOMAIN ui.selection :
        /\ (/\ Called("enterSelectionMode", s)
            /\ last'.res = "returns"
            /\ ~Has(last'.arg, "keepCurrentTab"))
           => /\ Made("saveCurrentTab")'
              /\ ui'.sidebar[s].savedTab = ui.location.tab
        /\ (/\ Called("exit", s)
            /\ Active(s)
            /\ \A o \in ui.selection[s].currentOptions : ~Has(o, "keepCurrentTab"))
           => Made("restoreSavedTab")']_vars

----------------------------------------------------------------------------
(* C18 *)

\* C18: while the filter of the active session has a non-empty allowedIds,
\* a setSelection call whose ids include an id that is not in allowedIds is
\* not forwarded to the native setSelection and does not call onSelect.
C18_OnlyAllowedIds ==
    [][\A s \in DOMAIN ui.selection :
        (/\ Called("setSelection", s)
         /\ Active(s)
         /\ Has(CurrentOptions(ui, s).filter, "allowedIds")
         /\ CurrentOptions(ui, s).filter.allowedIds # {}
         /\ \E id \in last'.arg : id \notin CurrentOptions(ui, s).filter.allowedIds)
        => ~last'.res /\ ~Made("onSelect")']_vars

----------------------------------------------------------------------------
(* C19 *)

\* The two URLs differ in the query parameter tab and in nothing else.
DiffersOnlyInTab(url1, url2) ==
    /\ url1.origin = url2.origin
    /\ url1.path = url2.path
    /\ url1.q = url2.q
    /\ url1.tab # url2.tab

\* C19: while tab switching is prevented, a pushState call is kept from the
\* native pushState only if its URL has the origin and the pathname of the
\* current URL and differs from it in the parameter tab alone; every other
\* call, one that changes tab together with another parameter included, is
\* forwarded.
C19_BlocksOnlyTabChanges ==
    [][\A c \in DOMAIN ui.sidebar :
        (/\ last'.op = "pushState"
         /\ IsTabSwitchingPreventedResult(ui, c)
         /\ ~DiffersOnlyInTab(ui.location, last'.arg))
        => last'.res /\ Made("pushState")']_vars

----------------------------------------------------------------------------
(* C20 *)

\* The controller's interceptor has been finished by destroy().
Destroyed(c) == ui.interceptors[PushInterceptor(c)].restored

\* C20: for a controller that has not been destroyed, isTabSwitchingPrevented()
\* returns the enabled flag of the controller's interceptor, which is false
\* after construction, true after preventTabSwitching() and false after
\* allowTabSwitching(), however often the calls were made before;
\* preventTabSwitching() while prevented and allowTabSwitching() while allowed
\* change nothing, and no other operation changes the flag.
C20_PreventedIsEnabledFlag ==
    [][\A c \in DOMAIN ui'.sidebar :
        /\ Called("new UrlBasedSidebarTabSwitchController", c)
           => ~IsTabSwitchingPreventedResult(ui', c)
        /\ (c \in DOMAIN ui.sidebar /\ ~Destroyed(c))
           => /\ Called("isTabSwitchingPrevented", c)
                 => /\ last'.res = ui.interceptors[PushInterceptor(c)].enabled
                    /\ ui' = Started(ui)
              /\ Called("preventTabSwitching", c)
                 => /\ IsTabSwitchingPreventedResult(ui', c)
                    /\ IsTabSwitchingPreventedResult(ui, c) => ui' = Started(ui)
              /\ Called("allowTabSwitching", c)
                 => /\ ~IsTabSwitchingPreventedResult(ui', c)
                    /\ ~IsTabSwitchingPreventedResult(ui, c) => ui' = Started(ui)
              /\ ~(\/ Called("preventTabSwitching", c)
                   \/ Called("allowTabSwitching", c)
                   \/ Called("destroy", c))
                 => IsTabSwitchingPreventedResult(ui', c)
                        = IsTabSwitchingPreventedResult(ui, c)]_vars

\* isTabSwitchingPrevented() has returned true for a controller that is not
\* destroyed and whose prevention was switched on, while the page is on
\* another URL than the initial one: a pushState was forwarded before.
C20_Witness ==
    /\ last.op = "isTabSwitchingPrevented"
    /\ last.res
    /\ ~Destroyed(last.mgr)
    /\ ui.slots[PushStateSlot] = PushInterceptor(last.mgr)
    /\ ui.location # InitialLocation

----------------------------------------------------------------------------
(* C21 *)

\* C21: with one interceptor on window.history.pushState, the slot holds the
\* native method whenever prevention is off and the interceptor's wrapper
\* whenever it is on: preventTabSwitching() finds the native method in the
\* slot each time it switches prevention on, allowTabSwitching() puts it
\* back, however many cycles went before, and a preventTabSwitching() while
\* prevention is on or an allowTabSwitching() while it is off changes nothing.
C21_EnableDisableRoundTrip ==
    [][\A c \in DOMAIN ui.sidebar :
        /\ (Called("preventTabSwitching", c) /\ ~Destroyed(c))
           => /\ ui'.slots[PushStateSlot] = PushInterceptor(c)
              /\ ~IsTabSwitchingPreventedResult(ui, c)
                 => ui.slots[PushStateSlot] = Original
              /\ IsTabSwitchingPreventedResult(ui, c) => ui' = Started(ui)
        /\ Called("allowTabSwitching", c)
           => /\ ui'.slots[PushStateSlot] = Original
              /\ ~IsTabSwitchingPreventedResult(ui, c) => ui' = Started(ui)]_vars

\* allowTabSwitching() has switched prevention off, the slot holds the native
\* method again, and the page has moved meanwhile.
C21_Witness ==
    /\ last.op = "allowTabSwitching"
    /\ last.res
    /\ ui.slots[PushStateSlot] = Original
    /\ ~Destroyed(last.mgr)
    /\ ui.location # InitialLocation

----------------------------------------------------------------------------
(* C22 *)

\* C22: destroy() is final.  Whatever calls went before, it leaves the native
\* pushState in the slot and prevention off; from then on
\* isTabSwitchingPrevented() returns false, preventTabSwitching() fails with
\* AlreadyRestored, and no call of the controller takes the native method out
\* of the slot or switches prevention on.
C22_RestoreIsTerminal ==
    [][\A c \in DOMAIN ui.sidebar :
        /\ Called("destroy", c)
           => /\ ui'.slots[PushStateSlot] = Original
              /\ ~IsTabSwitchingPreventedResult(ui', c)
              /\ Destroyed(c)'
        /\ Destroyed(c)
           => /\ Destroyed(c)'
              /\ ui'.slots[PushStateSlot] = Original
              /\ ~IsTabSwitchingPreventedResult(ui', c)
              /\ Called("preventTabSwitching", c) => last'.res = "AlreadyRestored"
              /\ Called("isTabSwitchingPrevented", c) => last'.res = FALSE]_vars

\* preventTabSwitching() has failed on a destroyed controller.
C22_Witness ==
    /\ last.op = "preventTabSwitching"
    /\ last.res = "AlreadyRestored"
    /\ Destroyed(last.mgr)
    /\ ui.slots[PushStateSlot] = Original

----------------------------------------------------------------------------
(* C23 *)

\* C23: when two controllers have switched prevention on, first a and then
\* b, so that b's wrapper is in the slot, allowTabSwitching() of a leaves b's
\* wrapper in the slot (it is rejected or b is kept above the native method);
\* and once prevention is off for every controller the slot holds the native
\* pushState.
C23_StackedWrapperKept ==
    [][/\ \A a \in DOMAIN ui.sidebar, b \in DOMAIN ui.sidebar :
            (/\ a # b
             /\ Called("allowTabSwitching", a)
             /\ IsTabSwitchingPreventedResult(ui, a)
             /\ IsTabSwitchingPreventedResult(ui, b)
             /\ ui.slots[PushStateSlot] = PushInterceptor(b))
            => ui'.slots[PushStateSlot] = PushInterceptor(b)
       /\ (\A c \in DOMAIN ui'.sidebar : ~IsTabSwitchingPreventedResult(ui', c))
            => ui'.slots[PushStateSlot] = Original]_vars

----------------------------------------------------------------------------
(* C24 *)

\* Module a depends on module b, directly or through other modules, all of
\* them among names.
RECURSIVE DependsThrough(_, _, _, _)
DependsThrough(registry, names, a, b) ==
    \/ b \in DependsOn(registry, a) \cap names
    \/ \E c \in DependsOn(registry, a) \cap names :
            DependsThrough(registry, names \ {c}, c, b)

\* C24: resolveOrder(names) fails with MissingDependency or CyclicDependency
\* only when a requested module depends on one that is not requested or the
\* requested modules depend on each other in a cycle, and it fails with that
\* error when only one of the two is the case; otherwise it returns the
\* requested names, each once, every module after the modules it depends on:
\* in the repository's registry 'UI.SidebarManager' before 'UI.SelectionMode'.
C24_ResolveOrder ==
    last.op = "resolveOrder" =>
        LET registry == last.arg.registry
            names == {last.arg.names[i] : i \in DOMAIN last.arg.names}
            order == last.res.order
            missing == \E n \in names : ~(DependsOn(registry, n) \subseteq names)
            cyclic == \E n \in names : DependsThrough(registry, names, n, n)
        IN  /\ last.res.error = "MissingDependency" => missing
            /\ last.res.error = "CyclicDependency" => cyclic
            /\ (missing /\ ~cyclic) => last.res.error = "MissingDependency"
            /\ (cyclic /\ ~missing) => last.res.error = "CyclicDependency"
            /\ (missing \/ cyclic) => last.res.error # "none"
            /\ last.res.error = "none"
               => /\ Len(order) = Len(last.arg.names)
                  /\ {order[i] : i \in DOMAIN order} = names
                  /\ \A i, j \in DOMAIN order :
                        order[j] \in DependsOn(registry, order[i]) => j < i
                  /\ \A i, j \in DOMAIN order :
                        (/\ registry = allHooks
                         /\ order[i] = "UI.SelectionMode"
                         /\ order[j] = "UI.SidebarManager") => j < i

\* resolveOrder(['UI.SelectionMode', 'Events', 'UI.SidebarManager']) on the
\* repository's registry has put the sidebar module first.
C24_Witness ==
    /\ last.op = "resolveOrder"
    /\ last.arg.registry = allHooks
    /\ last.arg.names = <<"UI.SelectionMode", "Events", "UI.SidebarManager">>
    /\ last.res.error = "none"
    /\ last.res.order = <<"Events", "UI.SidebarManager", "UI.SelectionMode">>

----------------------------------------------------------------------------
(* C25 *)

\* The place of a call among the calls of the last operation.
Position(call) == CHOOSE k \in DOMAIN ui.calls : ui.calls[k] = call

----------------------------------------------------------------------------
(* C26 *)

\* C26: enableAll leaves every namespace of the sdk and every member that a
\* namespace had in place and unchanged, sdk.Editing.setSelection and the
\* method in its slot included, creates the namespace that was missing
\* (sdk.Sidebar), and after it every property rule of the installed modules
\* has its property at its path, beside those of the rules installed before.
C26_SiblingsKept ==
    [][\A s \in InstanceIds :
        (Called("enableAll", s) /\ last'.res.error = "none")
        => /\ \A ns \in DOMAIN ui.sdk[s] :
                /\ Has(ui'.sdk[s], ns)
                /\ \A member \in DOMAIN ui.sdk[s][ns] :
                        /\ Has(ui'.sdk[s][ns], member)
                        /\ ui'.sdk[s][ns][member] = ui.sdk[s][ns][member]
           /\ ui'.slots[SetSelectionSlot(s)] = ui.slots[SetSelectionSlot(s)]
           /\ \A m \in DOMAIN ModuleRules :
                (\E k \in DOMAIN last'.res.order : last'.res.order[k] = m)
                => \A i \in DOMAIN ModuleRules[m] :
                        Has(ModuleRules[m][i], "path")
                        => LET path == ModuleRules[m][i].path
                           IN  /\ Len(path) = 2
                               /\ Has(ui'.sdk[s], path[1])
                               /\ Has(ui'.sdk[s][path[1]], path[2])
                               /\ Has(ui'.sdk[s][path[1]][path[2]], "get")
                                    = ~Truthy(ModuleRules[m][i], "isFactory")]_vars

\* enableAll has installed the sidebar module and the selection-mode module:
\* sdk.Editing has setSelection and the two new members, and sdk.Sidebar,
\* which was missing, has its three.
C26_Witness ==
    /\ last.op = "enableAll"
    /\ last.res.error = "none"
    /\ DOMAIN ui.sdk[last.mgr].Editing
            = {"setSelection", "enterSelectionMode", "isInSelectionMode"}
    /\ ui.sdk[last.mgr].Editing.setSelection = NativeSdk.Editing.setSelection
    /\ DOMAIN ui.sdk[last.mgr].Sidebar
            = {"preventTabSwitching", "allowTabSwitching", "isTabSwitchingPrevented"}
    /\ ~Has(NativeSdk, "Sidebar")

----------------------------------------------------------------------------
(* C27 *)

\* Tab switching is prevented by the sidebar module's controller of s.
Prevented(s) ==
    /\ SidebarTabController(s) \in DOMAIN ui.sidebar
    /\ IsTabSwitchingPreventedResult(ui, SidebarTabController(s))

\* The manager of s is in selection mode.
InSelectionMode(s) == s \in DOMAIN ui.selection /\ Active(s)

\* C27: sdk.Sidebar.preventTabSwitching, allowTabSwitching and
\* isTabSwitchingPrevented and sdk.Editing.isInSelectionMode are methods: to
\* read one of them without calling it changes neither the prevention nor
\* what is in the slots, and to call it throws nothing and performs the
\* operation: prevention is on after preventTabSwitching(), off after
\* allowTabSwitching(), and the other two return the flag.
C27_PropertiesAreMethods ==
    [][\A s \in InstanceIds :
        /\ (Called("read", s) /\ Has(ui.sdk[s][last'.arg[1]][last'.arg[2]], "get"))
           => Prevented(s)' = Prevented(s) /\ ui'.slots = ui.slots
        /\ Called("call", s)
           => /\ last'.res.error = "none"
              /\ last'.name = "Sidebar.preventTabSwitching" => Prevented(s)'
              /\ last'.name = "Sidebar.allowTabSwitching" => ~Prevented(s)'
              /\ last'.name = "Sidebar.isTabSwitchingPrevented"
                 => /\ last'.res.value = (IF Prevented(s) THEN "true" ELSE "false")
                    /\ Prevented(s)' = Prevented(s)
              /\ last'.name = "Editing.isInSelectionMode"
                 => last'.res.value = (IF InSelectionMode(s) THEN "true" ELSE "false")]_vars

----------------------------------------------------------------------------
(* C28 *)

\* How often a call was made by the last operation.
Times(call) == Cardinality({k \in DOMAIN ui.calls : ui.calls[k] = call})

\* The events module is installed by the engine of s.
EventsInstalled(s) == Has(ui.engine[s].kept, "Events")

\* The cleanups in the artifacts that the engine of s keeps for the lifecycle
\* rule of the events module, the first of its rules.
EventCleanups(s) == ui.engine[s].kept["Events"][1].artifacts.EVENT_CLEANUPS

\* C28: an enableAll that installs the events module invokes the effect of
\* every event definition once and no cleanup, and the artifacts kept hold
\* the cleanup of every definition once; the artifacts stay as they are until
\* the module is uninstalled; the disableAll that uninstalls it invokes every
\* cleanup of the artifacts once; and no other operation invokes a cleanup.
C28_EventsLifecycle ==
    [][\A n \in DOMAIN EVENTS :
       /\ Times("cleanup " \o EVENTS[n])' > 0
          => \E s \in InstanceIds : Called("disableAll", s) /\ EventsInstalled(s)
       /\ Times("effect " \o EVENTS[n])' > 0
          => \E s \in InstanceIds : Called("enableAll", s) /\ EventsInstalled(s)'
       /\ \A s \in InstanceIds :
        /\ (Called("enableAll", s) /\ EventsInstalled(s)')
           => /\ Times("effect " \o EVENTS[n])' = 1
              /\ Times("cleanup " \o EVENTS[n])' = 0
              /\ Cardinality({k \in DOMAIN EventCleanups(s)' :
                                EventCleanups(s)'[k] = EVENTS[n]}) = 1
        /\ (EventsInstalled(s) /\ ~Called("disableAll", s))
           => EventsInstalled(s)' /\ EventCleanups(s)' = EventCleanups(s)
        /\ (Called("disableAll", s) /\ EventsInstalled(s))
           => /\ Times("cleanup " \o EVENTS[n])'
                    = Cardinality({k \in DOMAIN EventCleanups(s) :
                                    EventCleanups(s)[k] = EVENTS[n]})
              /\ Times("effect " \o EVENTS[n])' = 0
              /\ ~EventsInstalled(s)']_vars

\* disableAll() has uninstalled the events module and invoked the cleanup of
\* its event definition once.
C28_Witness ==
    /\ last.op = "disableAll"
    /\ \E k \in DOMAIN last.res : last.res[k] = "Events"
    /\ ~EventsInstalled(last.mgr)
    /\ Times("cleanup wme-feature-editor-rendered") = 1
    /\ Made("Events.off")

----------------------------------------------------------------------------
(* C29 *)

\* The four queries of the lock interface.
Queries == {"hasLock", "isLockHeld", "getLockInfo", "listLocks"}

\* C29: hasLock, isLockHeld, getLockInfo and listLocks are pure queries: on a
\* namespace that exists, the step of any of them leaves the whole storage as
\* it was (no lock's owner, timestamp or metadata changes, no stale lock is
\* removed, no shared data changes); and when a caller writes a top-level field
\* of the object getLockInfo returned, that object differs from the stored
\* lock afterwards and the stored locks are the ones from before.
C29_QueriesArePure ==
    [][\A m \in DOMAIN managers :
        /\ (last'.mgr = m /\ last'.op \in Queries /\ Has(window, NamespaceOf(m)))
            => window' = window
        /\ Called("changeLockInfo", m)
            => /\ last'.res \notin last'.lock
               /\ Has(LocksOf(m), last'.name)
               /\ LocksOf(m)[last'.name] \in last'.lock
               /\ window' = window]_vars

\* isLockHeld has just answered false for a lock that is stale, and the lock
\* is still stored.
C29_Witness ==
    /\ last.op = "isLockHeld"
    /\ last.res = FALSE
    /\ \E l \in last.lock :
        /\ Expired(last.mgr, l)
        /\ Has(LocksOf(last.mgr), last.name)
        /\ LocksOf(last.mgr)[last.name] = l

----------------------------------------------------------------------------
(* C30 *)

----------------------------------------------------------------------------
(* C31 *)

\* The calls that a setSelection call on the sdk of an instance whose session
\* has the given options is to make, by the three cases of the claim.
Expected(options, objectType, ids) ==
    LET callback == IF Truthy(options, "onSelect") THEN <<"onSelect">> ELSE <<>>
    IN  IF ~MatchesFilter(objectType, ids, options.filter)
        THEN <<>>
        ELSE IF Truthy(options, "captureOnly")
             THEN callback
             ELSE callback \o <<"setSelection">>

\* C31: while a session is active, a setSelection call whose type or ids do
\* not match the current filter invokes neither the native method nor
\* onSelect; one that matches with captureOnly set invokes the session's
\* onSelect once and not the native method; one that matches without
\* captureOnly invokes onSelect once and then the native method.  While no
\* session is active (before the first, and after exit) the call invokes
\* the native method and nothing else.  The native method is invoked by the
\* interceptor with the arguments of the call: the decision function only
\* returns a verdict.
C31_SetSelectionDecided ==
    [][\A s \in InstanceIds :
        Called("setSelection", s)
        => IF s \in DOMAIN ui.selection /\ Active(s)
           THEN /\ ui'.calls = Expected(CurrentOptions(ui, s), last'.name, last'.arg)
                /\ last'.res = (Expected(CurrentOptions(ui, s), last'.name, last'.arg) # <<>>
                                /\ ~Truthy(CurrentOptions(ui, s), "captureOnly"))
           ELSE ui'.calls = <<"setSelection">> /\ last'.res]_vars

\* A matching selection has just been captured: onSelect was called and the
\* native method was not.
C31_Witness ==
    /\ last.op = "setSelection"
    /\ last.mgr \in DOMAIN ui.selection
    /\ Active(last.mgr)
    /\ Truthy(CurrentOptions(ui, last.mgr), "captureOnly")
    /\ ui.calls = <<"onSelect">>
    /\ ~last.res

----------------------------------------------------------------------------
(* C32 *)

\* The call with the given first argument and number of further arguments is
\* one that the claim says is forwarded: it has more than one argument, no
\* eventName, for on no eventHandler, or names no registered custom event.
Forwarded(method, options, rest) ==
    \/ rest > 0
    \/ \A o \in options : ~Has(o, "eventName")
    \/ (method = "on" /\ \A o \in options : ~Has(o, "eventHandler"))
    \/ \A o \in options : \A k \in DOMAIN EVENTS : EVENTS[k] # o.eventName

\* C32: with the events module installed, a call of sdk.Events.on, once or
\* off that has more than one argument, no eventName, for on no eventHandler,
\* or names no registered custom event invokes the original method once, with
\* the arguments of the call, and nothing else; every other call does not
\* invoke the original but the method of that name of the event bus and after
\* it the definition's onSubscribed (on, once) or onUnsubscribed (off) hook,
\* if it has one.
C32_EventsRouting ==
    [][\A method \in {"on", "once", "off"} :
        (/\ Called("Events", "S1")
         /\ last'.name = method
         /\ ui.slots[EventsSlot("S1", method)] # Original)
        => IF Forwarded(method, last'.arg[1], last'.arg[2])
           THEN /\ last'.res.to = "original"
                /\ last'.res.args = last'.arg
                /\ ui'.calls = <<"Events." \o method>>
           ELSE /\ last'.res.to = "eventBus"
                /\ ui'.calls \in
                    IF method = "off"
                    THEN {<<"eventBus.off">>, <<"eventBus.off", "onUnsubscribed">>}
                    ELSE {<<"eventBus." \o method, "onSubscribed">>}]_vars

\* The same for the calls whose first argument is an object: the routing of
\* every such call is the one stated.  Together with the formula above this
\* shows that the calls that are not forwarded although they have no
\* eventName are those without an options object.
RoutingOfOptionsObjects ==
    [][\A method \in {"on", "once", "off"} :
        (/\ Called("Events", "S1")
         /\ last'.name = method
         /\ last'.arg[1] # {}
         /\ ui.slots[EventsSlot("S1", method)] # Original)
        => IF Forwarded(method, last'.arg[1], last'.arg[2])
           THEN /\ last'.res.to = "original"
                /\ last'.res.args = last'.arg
                /\ ui'.calls = <<"Events." \o method>>
           ELSE /\ last'.res.to = "eventBus"
                /\ ui'.calls \in
                    IF method = "off"
                    THEN {<<"eventBus.off">>, <<"eventBus.off", "onUnsubscribed">>}
                    ELSE {<<"eventBus." \o method, "onSubscribed">>}]_vars

----------------------------------------------------------------------------
(* C33 *)

\* C33: acquireLock is not re-entrant and nothing refreshes a lock: when the
\* caller owns the lock and it is not stale, acquireLock returns success =
\* false with currentOwnerId the caller's own id and changes nothing; and in
\* no step does the record stored under a name change while it stays stored,
\* except that a successful acquireLock of that name replaces a record that
\* was stale for the caller by a new one.  The timestamp of a held lock
\* therefore stays the one of its acquisition.
C33_NotReentrant ==
    [][\A m \in DOMAIN managers, n \in LockNames :
        /\ (/\ Called("acquireLock", m) /\ last'.name = n
            /\ n \in DOMAIN LocksOf(m)
            /\ LocksOf(m)[n].ownerId = managers[m].instanceId
            /\ ~Expired(m, LocksOf(m)[n]))
           => /\ last'.res.success = FALSE
              /\ last'.res.currentOwnerId = managers[m].instanceId
              /\ window' = window
        /\ (/\ n \in DOMAIN LocksOf(m)
            /\ n \in DOMAIN LocksOf(m)'
            /\ LocksOf(m)'[n] # LocksOf(m)[n])
           => /\ last'.op = "acquireLock"
              /\ last'.name = n
              /\ last'.res.success
              /\ last'.res.wasStale
              /\ Expired(last'.mgr, LocksOf(m)[n])]_vars

\* A manager was refused its own lock some time after it had acquired it, and
\* the lock still has the timestamp of the acquisition.
C33_Witness ==
    /\ last.op = "acquireLock"
    /\ ~last.res.success
    /\ last.res.currentOwnerId = managers[last.mgr].instanceId
    /\ LocksOf(last.mgr)[last.name].timestamp < now
    /\ LocksOf(last.mgr)[last.name] \in last.lock

----------------------------------------------------------------------------
(* C34 *)

\* C34: staleness is a strict comparison.  For a lock whose age, now minus
\* its timestamp, equals the caller's staleLockTimeout: acquireLock of its
\* name fails and changes nothing, isLockHeld is true, and cleanupStaleLocks
\* keeps it.  For a lock whose age is greater: acquireLock succeeds with
\* wasStale = true, isLockHeld is false, and cleanupStaleLocks removes it.
C34_StrictComparison ==
    [][\A m \in DOMAIN managers, n \in LockNames :
        (last'.mgr = m /\ n \in DOMAIN LocksOf(m))
        => LET age == now - LocksOf(m)[n].timestamp
               timeout == managers[m].staleLockTimeout
           IN  /\ (age = timeout /\ last'.op = "acquireLock" /\ last'.name = n)
                  => ~last'.res.success /\ window' = window
               /\ (age = timeout /\ last'.op = "isLockHeld" /\ last'.name = n)
                  => last'.res = TRUE
               /\ (age = timeout /\ last'.op = "cleanupStaleLocks")
                  => n \in DOMAIN LocksOf(m)' /\ LocksOf(m)'[n] = LocksOf(m)[n]
               /\ (age > timeout /\ last'.op = "acquireLock" /\ last'.name = n)
                  => last'.res.success /\ last'.res.wasStale
               /\ (age > timeout /\ last'.op = "isLockHeld" /\ last'.name = n)
                  => last'.res = FALSE
               /\ (age > timeout /\ last'.op = "cleanupStaleLocks")
                  => n \notin DOMAIN LocksOf(m)']_vars

\* A manager was refused the lock of another instance whose age was exactly
\* the manager's timeout.
C34_Witness ==
    /\ last.op = "acquireLock"
    /\ ~last.res.success
    /\ \E l \in last.lock :
        /\ now - l.timestamp = managers[last.mgr].staleLockTimeout
        /\ l.ownerId # managers[last.mgr].instanceId

----------------------------------------------------------------------------
(* C35 *)

----------------------------------------------------------------------------
(* C36 *)

----------------------------------------------------------------------------
(* C37 *)

\* C37: the control object is bound to the manager and not to its session.
\* While a session after the first is active on a manager, exit() of the
\* control object of the first session ends that session: the manager is
\* inactive afterwards, its interceptor is disabled and setSelection is the
\* native method again, and the 'selectionMode' lock the manager owned is
\* gone; and updateFilter(newFilter) of that object merges newFilter into the
\* filter of the active session.
C37_ControlBoundToManager ==
    [][\A s \in DOMAIN ui.selection :
        (/\ last'.mgr = s
         /\ last'.name = "first"
         /\ "later" \in ui.controls[s]
         /\ Active(s))
        => /\ last'.op = "exit"
              => /\ ~ui'.selection[s].isActive
                 /\ ui'.selection[s].currentOptions = {}
                 /\ ~ui'.interceptors[SelectionInterceptor(s)].enabled
                 /\ ui'.slots[SetSelectionSlot(s)] = Original
                 /\ (\E l \in SelectionLockOf(s) : OwnedBy(s, l))
                    => ~Has(window'[SelectionNamespace].locks, SelectionLock)
           /\ last'.op = "updateFilter"
              => \E o \in ui.selection[s].currentOptions :
                    /\ ui'.selection[s].isActive
                    /\ ui'.selection[s].currentOptions =
                        {[o EXCEPT !.filter = Merged(o.filter, last'.arg)]}]_vars

\* exit() of the first session's control object has just ended a later
\* session of the manager.
C37_Witness ==
    /\ last.op = "exit"
    /\ last.name = "first"
    /\ last.res = TRUE
    /\ "later" \in ui.controls[last.mgr]
    /\ last.lock # {}
    /\ ~Active(last.mgr)
    /\ SelectionLockOf(last.mgr) = {}

----------------------------------------------------------------------------
(* C38 *)

\* C38: whenever enterSelectionMode throws, whatever the error, the manager
\* is as it was before the call: isInSelectionMode() has the value it had,
\* the locks of the namespace are the ones from before (the manager holds no
\* lock it did not hold), and tab switching is prevented only if it was.
C38_ThrowLeavesManagerAsBefore ==
    [][\A s \in DOMAIN ui.selection :
        (Called("enterSelectionMode", s) /\ last'.res # "returns")
        => /\ ui'.selection[s] = ui.selection[s]
           /\ window'[SelectionNamespace].locks = window[SelectionNamespace].locks
           /\ IsTabSwitchingPreventedResult(ui', ui.selection[s].sidebarController)
                = IsTabSwitchingPreventedResult(ui, ui.selection[s].sidebarController)]_vars

----------------------------------------------------------------------------
(* C39 *)

\* C39: manager a is in selection mode and the 'selectionMode' lock is owned
\* by manager b of another instance (a's lock went stale and b took it over
\* when it entered).  Then exit() of a makes a inactive and disables a's
\* interceptor, so that a's setSelection is the native method again, and
\* leaves the storage as it is: the lock is still b's, with its timestamp, and
\* while it is fresh no manager could acquire it, so that the
\* enterSelectionMode of any further instance fails.
C39_ExitKeepsOthersLock ==
    [][\A a \in DOMAIN ui.selection, b \in DOMAIN ui.selection :
        (/\ a # b
         /\ Called("exit", a)
         /\ Active(a)
         /\ \E l \in SelectionLockOf(a) : OwnedBy(b, l))
        => /\ ~ui'.selection[a].isActive
           /\ ~ui'.interceptors[SelectionInterceptor(a)].enabled
           /\ ui'.slots[SetSelectionSlot(a)] = Original
           /\ ui'.selection[b] = ui.selection[b]
           /\ window' = window
           /\ \A l \in SelectionLockOf(a) :
                ~Expired(a, l) => \A c \in DOMAIN managers : ~CanAcquire(c)]_vars

\* exit() has just ended a session of a manager while another manager, in
\* selection mode, owns the lock, which is still stored.
C39_Witness ==
    /\ last.op = "exit"
    /\ last.res = TRUE
    /\ ~Active(last.mgr)
    /\ \E b \in DOMAIN ui.selection \ {last.mgr} :
        /\ Active(b)
        /\ \E l \in last.lock : OwnedBy(b, l) /\ SelectionLockOf(b) = {l}
        /\ ~CanAcquire(last.mgr)

----------------------------------------------------------------------------
(* C40 *)

\* C40: a SharedSelectionStateManager and a SharedStateManager of timeout
\* 60000 ms used for one lock name, given the same calls by the same scripts at
\* the same times, answer alike: acquireLock() succeeds exactly when
\* acquireLock(name).success is true, hasLock() equals hasLock(name),
\* isAnyInstanceActive() equals isLockHeld(name), and releaseLock() frees the
\* lock exactly when releaseLock(name) returns true.  The two storages go
\* together as well: the single lock is active exactly when the named lock is
\* stored, and then with the same owner and the same timestamp.
C40_SingleLockEquivalent ==
    /\ last.op = "sideBySide" => last.res[1] = last.res[2]
    /\ (last.op \in {"sideBySide", "tick"} /\ Has(window, "__WME_SDK_PLUS_SELECTION_MODE__"))
        => LET single == window["__WME_SDK_PLUS_SELECTION_MODE__"]
               locks == IF Has(window, "ns3") THEN window["ns3"].locks ELSE EmptyObject
           IN  /\ single.isActive <=> Has(locks, "x")
               /\ single.isActive <=> single.activeInstanceId # Null
               /\ Has(locks, "x") =>
                    /\ locks["x"].ownerId = single.activeInstanceId
                    /\ locks["x"].timestamp = single.timestamp

\* Each kind of call has been answered by both managers: a takeover of the
\* other script's stale lock that both grant, or a contended acquire that both
\* refuse, or a release by the owner that frees both locks, or a hasLock that
\* both affirm of a stale lock, or a query of a stale lock that both deny.
C40_Witness ==
    /\ last.op = "sideBySide"
    /\ last.res[1] = last.res[2]
    /\ \E l \in last.lock :
        LET stale == now - l.timestamp > 60000
            own == l.ownerId = managers[last.mgr].instanceId
        IN  \/ last.name = "acquireLock" /\ ~own /\ stale /\ last.res[1]
            \/ last.name = "releaseLock" /\ own /\ stale /\ last.res[1]
            \/ last.name = "hasLock" /\ own /\ stale /\ last.res[1]
            \/ last.name = "isAnyInstanceActive" /\ stale /\ ~last.res[1]

====
